---- MODULE Spec2Model ----
(***************************************************************************)
(* Citation- and collaboration-network analysis of lit_review: the entity  *)
(* store written by DocumentStorage.store_document, and the analysis calls *)
(* of CitationAnalyzer and CoAuthorshipAnalyzer, each of which builds its  *)
(* graph from the store and computes a result record from it.              *)
(***************************************************************************)
EXTENDS Integers, Sequences, FiniteSets, TLC

\* ------------------------------------------------------------------ bounds

MaxDocs == 2
MaxAuthors == 3
MaxCites == 2
MaxOutages == 1

\* ------------------------------------------------------------- value sets

\* Python's None for an integer column: cited_document_id and
\* publication_year are nullable; ids are autoincremented from 1.
NoId == 0
NoYear == 0

Names == {"Smith", "Jones", "Lee"}
Years == {NoYear, 2020}

RECURSIVE SeqsUpTo(_, _)
SeqsUpTo(S, n) ==
  IF n = 0 THEN {<<>>}
  ELSE LET shorter == SeqsUpTo(S, n - 1)
       IN shorter \cup {Append(s, x) : s \in {t \in shorter : Len(t) = n - 1}, x \in S}

\* Document.authors as the analyzers read it: an ordered list of names.
AuthorLists == SeqsUpTo(Names, MaxAuthors)

Range(s) == {s[i] : i \in DOMAIN s}

\* The execution contexts (request threads) of the host application and the
\* analysis operations they call.
Ctx == {1, 2}
CiteOps == {"build_citation_network", "analyze_citation_patterns", "find_citation_clusters"}
CoOps == {"build_coauthorship_network", "analyze_author_centrality",
          "find_research_communities", "get_most_collaborative_authors",
          "get_author_profile"}
\* get_most_cited_papers queries the store and builds no graph.
QueryOps == {"get_most_cited_papers", "get_most_citing_papers", "get_citation_timeline",
             "get_collaboration_timeline"}
Ops == CiteOps \cup CoOps \cup QueryOps
Kind(op) == IF op \in CiteOps \cup (QueryOps \ {"get_collaboration_timeline"})
            THEN "cite" ELSE "co"

VARIABLES
  documents,    \* committed Document rows, in id order
  citations,    \* committed Citation rows, in insertion order
  storeUp,      \* whether reads of the entity store succeed
  outages,      \* number of store outages so far (bounded)
  pc,           \* per context: position of its analysis call
  op,           \* per context: the operation called
  arg,          \* per context: the arguments of the call (author_name, limit)
  graphs,       \* the graph each call frame holds in its local G
  sessions,     \* contexts whose analyzer-opened session is open
  outcome,      \* per context: what the call handed to its caller
  hist,         \* history of the calls, for stating the properties
  store,        \* the frame of the store_document call in progress, if any
  cli           \* the frame of the process_directory run, if any

vars == <<documents, citations, storeUp, outages, pc, op, arg, graphs, sessions, outcome, hist,
          store, cli>>

\* --------------------------------------------------------- graph snapshots

\* nx.Graph() / nx.DiGraph(): a graph with no node and no edge.  nodes keeps
\* networkx's node insertion order, attrs the node attribute dicts, edges the
\* edge attribute dicts keyed by the edge, adj each node's neighbours in the
\* order their edges were created (the order G.neighbors iterates in).
\* No graph held: the value of a frame's G outside a call.
NoGraph == [nodes |-> <<>>, attrs |-> <<>>, edges |-> <<>>, adj |-> <<>>]

nx_Graph_Retained == hist.last["co"]
nx_Graph == [nodes |-> <<>>, attrs |-> <<>>, edges |-> <<>>, adj |-> <<>>]

nx_DiGraph == [nodes |-> <<>>, attrs |-> <<>>, edges |-> <<>>]

has_node(G, n) == n \in DOMAIN G.attrs

\* The {id, title, year} record appended to a node's or an edge's papers.
PaperOf(doc) == [id |-> doc.id, year |-> doc.year]

\* Lines 51-61: add the author node if it is new, then append the paper and
\* count it.
AddAuthor(G, author, doc) ==
  LET G1 == IF has_node(G, author) THEN G
            ELSE [G EXCEPT !.nodes = Append(@, author),
                           !.attrs = (author :> [papers |-> <<>>, total_papers |-> 0]) @@ @,
                           !.adj = (author :> <<>>) @@ @]
  IN [G1 EXCEPT !.attrs[author] =
        [papers |-> Append(@.papers, PaperOf(doc)), total_papers |-> @.total_papers + 1]]

\* An iteration of a loop ends before the next one begins: the graph it
\* leaves is evaluated here, and not on demand when the loop is over.
Evaluated(G) == "nodes" \in DOMAIN G

RECURSIVE AddAuthors(_, _, _, _)
AddAuthors(G, authors, i, doc) ==
  IF i > Len(authors) THEN G
  ELSE LET G1 == AddAuthor(G, authors[i], doc)
       IN IF Evaluated(G1) THEN AddAuthors(G1, authors, i + 1, doc) ELSE G1

\* An undirected edge is keyed by the set of its ends ({a} is a self-loop):
\* has_edge(u, v) and G[u][v] do not depend on the order of u and v.
EdgeKey(a1, a2) == {a1, a2}

\* Lines 66-82: one pair (author1, author2) of the double loop.
AddCollaboration(G, author1, author2, doc) ==
  LET e == EdgeKey(author1, author2)
  IN IF e \in DOMAIN G.edges
     THEN [G EXCEPT !.edges[e] =
             [weight |-> @.weight + 1, papers |-> Append(@.papers, PaperOf(doc))]]
     ELSE [G EXCEPT !.edges = (e :> [weight |-> 1, papers |-> <<PaperOf(doc)>>]) @@ @,
                    !.adj[author1] = Append(@, author2),
                    !.adj[author2] = IF author1 = author2 THEN @ ELSE Append(@, author1)]

\* Lines 64-65: for i, author1 in enumerate(authors): for author2 in
\* authors[i+1:], by position.
RECURSIVE AddPairs(_, _, _, _, _)
AddPairs(G, authors, i, j, doc) ==
  IF i > Len(authors) THEN G
  ELSE IF j > Len(authors) THEN AddPairs(G, authors, i + 1, i + 2, doc)
  ELSE LET G1 == AddCollaboration(G, authors[i], authors[j], doc)
       IN IF Evaluated(G1) THEN AddPairs(G1, authors, i, j + 1, doc) ELSE G1

\* Lines 47-82: the loop over the documents read from the session.
RECURSIVE CoAuthorshipFrom(_, _, _)
CoAuthorshipFrom(G, docs, k) ==
  IF k > Len(docs) THEN G
  ELSE LET doc == docs[k]
           G1 == AddAuthors(G, doc.authors, 1, doc)
           G2 == AddPairs(G1, doc.authors, 1, 2, doc)
       IN IF Evaluated(G2) THEN CoAuthorshipFrom(G2, docs, k + 1) ELSE G2

\* DiGraph.add_node(n, **attr): a new node is appended, attributes are set.
add_node(G, n, attr) ==
  IF has_node(G, n) THEN [G EXCEPT !.attrs[n] = attr]
  ELSE [G EXCEPT !.nodes = Append(@, n), !.attrs = (n :> attr) @@ @]

\* DiGraph.add_edge(u, v, **attr): both ends become nodes if they are not;
\* an edge u->v that exists keeps its identity and takes the new attributes.
add_edge(G, u, v, attr) ==
  LET G1 == IF has_node(G, u) THEN G ELSE add_node(G, u, <<>>)
      G2 == IF has_node(G1, v) THEN G1 ELSE add_node(G1, v, <<>>)
  IN [G2 EXCEPT !.edges = (<<u, v>> :> attr) @@ [e \in DOMAIN @ \ {<<u, v>>} |-> @[e]]]

\* `if citation.cited_document_id:` (line 57): None is false (and so would
\* an id of 0 be, which autoincrement never assigns).
IsInternal(citation) == citation.cited # NoId

RECURSIVE AddDocNodes(_, _, _)
AddDocNodes(G, docs, k) ==
  IF k > Len(docs) THEN G
  ELSE LET G1 == add_node(G, docs[k].id, [authors |-> docs[k].authors, year |-> docs[k].year])
       IN IF Evaluated(G1) THEN AddDocNodes(G1, docs, k + 1) ELSE G1

RECURSIVE AddCitationEdges(_, _, _)
AddCitationEdges(G, cits, k) ==
  IF k > Len(cits) THEN G
  ELSE LET G1 == IF IsInternal(cits[k])
                 THEN add_edge(G, cits[k].citing, cits[k].cited,
                               [citation_text |-> cits[k].text])
                 ELSE G
       IN IF Evaluated(G1) THEN AddCitationEdges(G1, cits, k + 1) ELSE G1

\* Lines 47-60 of citation_analyzer.py, on the rows the two queries returned.
CitationFrom_Stale(G, docs, cits) ==
  AddCitationEdges(AddDocNodes(G, SubSeq(docs, 1, Len(docs) - 1), 1), cits, 1)
CitationFrom(G, docs, cits) == AddCitationEdges(AddDocNodes(G, docs, 1), cits, 1)

number_of_nodes(G) == Len(G.nodes)
number_of_edges(G) == Cardinality(DOMAIN G.edges)


\* ------------------------------------------------- connectivity, rankings

\* The undirected projection: the edges as sets of ends (G.to_undirected()
\* for the citation graph; the collaboration graph is undirected already).
Undirected_Reciprocal(G, kind) ==
  IF kind = "co" THEN DOMAIN G.edges
  ELSE {{e[1], e[2]} : e \in {d \in DOMAIN G.edges : <<d[2], d[1]>> \in DOMAIN G.edges}}
Undirected(G, kind) ==
  IF kind = "co" THEN DOMAIN G.edges ELSE {{e[1], e[2]} : e \in DOMAIN G.edges}

Neighbours(E, S) == {m \in UNION E : \E n \in S : {n, m} \in E}

\* Breadth-first search from a frontier: the nodes reached, and the number of
\* layers needed (the eccentricity of the start node).
RECURSIVE Reached(_, _, _)
Reached(E, frontier, seen) ==
  LET next == Neighbours(E, frontier) \ seen
  IN IF next = {} THEN seen ELSE Reached(E, next, seen \cup next)

RECURSIVE Eccentricity(_, _, _, _)
Eccentricity(E, frontier, seen, d) ==
  LET next == Neighbours(E, frontier) \ seen
  IN IF next = {} THEN d ELSE Eccentricity(E, next, seen \cup next, d + 1)

Component(E, n) == Reached(E, {n}, {n})
Components(G, kind) == {Component(Undirected(G, kind), n) : n \in Range(G.nodes)}

\* nx.is_connected / nx.is_weakly_connected of a graph with at least a node.
is_connected(G, kind) == Cardinality(Components(G, kind)) = 1

Max(S) == CHOOSE x \in S : \A y \in S : y <= x

\* nx.diameter of the subgraph induced by the connected node set S.
diameter(G, kind, S) ==
  LET E == {e \in Undirected(G, kind) : e \subseteq S}
  IN Max({Eccentricity(E, {n}, {n}, 0) : n \in S})

\* max(nx.connected_components(G), key=len): the first largest component in
\* the order the components are generated, which is node order.
LargestComponent(G, kind) ==
  LET E == Undirected(G, kind)
      size == Max({Cardinality(C) : C \in Components(G, kind)})
      first == CHOOSE i \in DOMAIN G.nodes :
                 /\ Cardinality(Component(E, G.nodes[i])) = size
                 /\ \A j \in 1..(i - 1) : Cardinality(Component(E, G.nodes[j])) # size
  IN Component(E, G.nodes[first])

\* sorted(items, key=..., reverse=True): Python's sort is stable, and with
\* reverse=True items of equal key keep their original order.  keys[i] is the
\* key of items[i].
SortedDesc_AsGiven(items, keys) == items
RECURSIVE SortedDesc(_, _)
SortedDesc(items, keys) ==
  IF items = <<>> THEN <<>>
  ELSE LET i == CHOOSE i \in DOMAIN items :
                  /\ \A j \in DOMAIN items : keys[j] <= keys[i]
                  /\ \A j \in 1..(i - 1) : keys[j] < keys[i]
           rest(q) == SubSeq(q, 1, i - 1) \o SubSeq(q, i + 1, Len(q))
       IN <<items[i]>> \o SortedDesc(rest(items), rest(keys))

\* items[:k]
Take(items, k) == SubSeq(items, 1, IF Len(items) < k THEN Len(items) ELSE k)

\* Degrees as networkx counts them: a self-loop adds 2 to an undirected
\* degree, and 1 to the in- and to the out-degree of a directed one.
degree(G, n) ==
  Cardinality({e \in DOMAIN G.edges : n \in e}) + (IF {n} \in DOMAIN G.edges THEN 1 ELSE 0)
in_degree(G, n) == Cardinality({e \in DOMAIN G.edges : e[2] = n})
out_degree(G, n) == Cardinality({e \in DOMAIN G.edges : e[1] = n})

\* nx.degree_centrality and its directed variants: the degree over n - 1 as
\* the fraction <<degree, n - 1>>, and 1 for every node when n <= 1.
DegreeOf(G, n, which) ==
  CASE which = "in_degree" -> in_degree(G, n)
    [] which = "out_degree" -> out_degree(G, n)
    [] which = "degree" -> degree(G, n)

Centrality(G, which) ==
  [i \in DOMAIN G.nodes |->
     <<G.nodes[i],
       IF Len(G.nodes) <= 1 THEN <<1, 1>>
       ELSE <<DegreeOf(G, G.nodes[i], which), Len(G.nodes) - 1>>>>]

\* sorted(centrality.items(), key=lambda x: x[1], reverse=True)[:k]; all the
\* scores of one graph have the same denominator.
TopBy_Unsorted(items, k) == Take(items, k)
TopBy(items, k) == Take(SortedDesc(items, [i \in DOMAIN items |-> items[i][2][1]]), k)

\* The scores networkx computes in floating point (PageRank, betweenness,
\* closeness and eigenvector centrality) are not computed here: a call gets
\* one of these score tables, by position of the node in G.nodes(), which
\* between them have ties, rising and falling scores.
Profiles == {"flat", "rising", "falling", "alternating"}
Score(profile, i, n) ==
  CASE profile = "flat" -> 0
    [] profile = "rising" -> i
    [] profile = "falling" -> n - i
    [] profile = "alternating" -> i % 2

LibMetrics == {"pagerank", "betweenness", "closeness", "eigenvector"}

\* What nx.community.greedy_modularity_communities leaves to the build: which
\* of several best merges is taken (tie), whether a merge that leaves the
\* modularity unchanged is made (zero: releases differ), and whether a
\* community is iterated in node order or in the reverse order (a frozenset
\* has no order of its own).
Ties == {"first", "last"}

\* What the library does in one call.
DefaultLib == [scores |-> [m \in LibMetrics |-> "flat"],
               tie |-> "first", zero |-> FALSE, reversed |-> FALSE]
LibraryChoices(o) ==
  CASE o = "analyze_citation_patterns" ->
         {[DefaultLib EXCEPT !.scores["pagerank"] = p] : p \in Profiles}
    [] o = "analyze_author_centrality" ->
         {[DefaultLib EXCEPT !.scores = sc] :
            sc \in {f \in [LibMetrics -> Profiles] : f["pagerank"] = "flat"}}
    [] o \in {"find_research_communities", "find_citation_clusters"} ->
         {[DefaultLib EXCEPT !.tie = t, !.zero = z, !.reversed = r] :
            t \in Ties, z \in BOOLEAN, r \in BOOLEAN}
    [] OTHER -> {DefaultLib}

\* sorted(scores.items(), key=lambda x: x[1], reverse=True)[:k] of such a
\* table.
LibraryRanking(G, profile, k) ==
  TopBy([i \in DOMAIN G.nodes |-> <<G.nodes[i], <<Score(profile, i, Len(G.nodes)), 1>>>>], k)


\* ------------------------------------------------------- analysis results

\* What a call hands to its caller: nothing yet, a value, or an exception.
NoOutcome == [kind |-> "none", value |-> <<>>]
Returned(v) == [kind |-> "return", value |-> v]
Raised(e) == [kind |-> "raise", value |-> [error |-> e]]

TopCited == 5
TopAuthors == 10
DefaultLimit == 10
KeyAuthors == 5

\* The arguments of a call made with none.
NoArg == [author_name |-> "", limit |-> DefaultLimit]

\* A ratio a / b as the pair <<a, b>>; Python's literal 0 is <<0, 1>>.
Ratio(a, b) == <<a, b>>
Zero == Ratio(0, 1)

\* The networkx calls of each overview that may raise (the overviews wrap
\* them in `try: ... except Exception`).
CiteMetrics == {"in_degree_centrality", "out_degree_centrality", "pagerank",
                "is_weakly_connected", "diameter"}
CoMetrics == {"eigenvector_centrality"}
Fallible(o) ==
  IF o = "analyze_citation_patterns" THEN CiteMetrics
  ELSE IF o = "analyze_author_centrality" THEN CoMetrics
  ELSE {}

\* analyze_citation_patterns, lines 160-196.  fails: the calls that raise.
CitationRankings(G, lib) ==
  [most_cited_by_in_degree |-> TopBy(Centrality(G, "in_degree"), TopCited),
   most_citing_by_out_degree |-> TopBy(Centrality(G, "out_degree"), TopCited),
   highest_pagerank |-> LibraryRanking(G, lib.scores["pagerank"], TopCited)]

analyze_citation_patterns_Unguarded(G, fails, lib) ==
  CitationRankings(G, lib) @@
  [total_papers |-> number_of_nodes(G), total_citations |-> number_of_edges(G),
   average_citations_per_paper |-> Zero]
analyze_citation_patterns(G, fails, lib) ==
  LET n == number_of_nodes(G)
      e == number_of_edges(G)
      analysis == [total_papers |-> n, total_citations |-> e,
                   average_citations_per_paper |-> IF n > 0 THEN Ratio(e, n) ELSE Zero]
      ranked == CitationRankings(G, lib) @@ analysis
  IN IF n > 0
     THEN IF fails \cap {"in_degree_centrality", "out_degree_centrality", "pagerank"} # {}
          THEN analysis
          ELSE IF "is_weakly_connected" \in fails THEN ranked
          ELSE IF is_connected(G, "cite")
          THEN IF "diameter" \in fails
               THEN [is_connected |-> TRUE] @@ ranked
               ELSE [is_connected |-> TRUE,
                     diameter |-> diameter(G, "cite", Range(G.nodes))] @@ ranked
          ELSE [is_connected |-> FALSE,
                connected_components |-> Cardinality(Components(G, "cite"))] @@ ranked
     ELSE analysis

\* analyze_author_centrality, lines 214-261.
analyze_author_centrality(G, fails, lib) ==
  LET n == number_of_nodes(G)
      e == number_of_edges(G)
      analysis ==
        [total_authors |-> n, total_collaborations |-> e,
         average_collaborators_per_author |-> Ratio(2 * e, n),
         top_by_degree_centrality |-> TopBy(Centrality(G, "degree"), TopAuthors),
         top_by_betweenness_centrality |->
           LibraryRanking(G, lib.scores["betweenness"], TopAuthors),
         top_by_closeness_centrality |->
           LibraryRanking(G, lib.scores["closeness"], TopAuthors),
         top_by_eigenvector_centrality |->
           LibraryRanking(G, lib.scores["eigenvector"], TopAuthors)]
      largest_cc == LargestComponent(G, "co")
  IN IF n = 0 THEN <<>>
     ELSE IF fails # {} THEN <<>>
     ELSE IF is_connected(G, "co")
     THEN [is_connected |-> TRUE,
           diameter |-> diameter(G, "co", Range(G.nodes)),
           average_path_length |-> "average_shortest_path_length"] @@ analysis
     ELSE [is_connected |-> FALSE,
           connected_components |-> Cardinality(Components(G, "co")),
           largest_component_size |-> Cardinality(largest_cc),
           largest_component_diameter |-> diameter(G, "co", largest_cc)] @@ analysis

RECURSIVE SumSeq(_)
SumSeq(q) == IF q = <<>> THEN 0 ELSE Head(q) + SumSeq(Tail(q))

\* get_most_collaborative_authors, lines 100-131.
get_most_collaborative_authors(G, limit) ==
  LET authors_data ==
        [i \in DOMAIN G.nodes |->
           LET author == G.nodes[i]
               nbrs == G.adj[author]
               found == [k \in DOMAIN nbrs |->
                           [name |-> nbrs[k],
                            collaboration_count |-> G.edges[EdgeKey(author, nbrs[k])].weight,
                            shared_papers |-> G.edges[EdgeKey(author, nbrs[k])].papers]]
           IN [name |-> author,
               total_papers |-> G.attrs[author].total_papers,
               unique_collaborators |-> degree(G, author),
               total_collaborations |->
                 SumSeq([k \in DOMAIN nbrs |-> G.edges[EdgeKey(author, nbrs[k])].weight]),
               collaboration_rate |->
                 IF G.attrs[author].total_papers > 0
                 THEN Ratio(degree(G, author), G.attrs[author].total_papers) ELSE Zero,
               collaborators |->
                 SortedDesc(found, [k \in DOMAIN found |-> found[k].collaboration_count])]]
  IN Take(SortedDesc(authors_data,
                     [i \in DOMAIN authors_data |-> authors_data[i].unique_collaborators]),
          limit)

\* The nodes of the set S, in node order.
NodeSeq(G, S) ==
  LET Member(n) == n \in S
  IN SelectSeq(G.nodes, Member)

Reverse(q) == [i \in DOMAIN q |-> q[Len(q) + 1 - i]]

\* The degree of node n in the undirected edge set E (a self-loop counts
\* twice), and the sum of the degrees of the nodes of S.
Degree(E, n) == Cardinality({e \in E : n \in e}) + (IF {n} \in E THEN 1 ELSE 0)
RECURSIVE Volume(_, _)
Volume(E, S) ==
  IF S = {} THEN 0
  ELSE LET n == CHOOSE n \in S : TRUE
       IN Degree(E, n) + Volume(E, S \ {n})

\* The edges between the communities A and B.
Between(E, A, B) == {e \in E : e \cap A # {} /\ e \cap B # {}}

\* The gain in modularity of merging A and B, 2 (e_AB - a_A a_B), times
\* 2 m^2, where m is the number of edges.
Gain(E, A, B) == 2 * Cardinality(E) * Cardinality(Between(E, A, B)) - Volume(E, A) * Volume(E, B)

\* The greedy loop: of the pairs of communities joined by an edge, the one
\* whose merge gains most is merged, until no pair is left or the best merge
\* lowers the modularity.  parts is the sequence of the communities.
JoinedPairs(E, parts) ==
  {p \in (DOMAIN parts) \X (DOMAIN parts) :
     p[1] < p[2] /\ Between(E, parts[p[1]], parts[p[2]]) # {}}

Gains(E, parts, pairs) == [p \in pairs |-> Gain(E, parts[p[1]], parts[p[2]])]

Best(pairs, gain) == {p \in pairs : \A q \in pairs : gain[q] <= gain[p]}

\* Of the best pairs, the one the build meets first, or last.
Picked(best, lib) ==
  LET Before(p, q) == p[1] < q[1] \/ (p[1] = q[1] /\ p[2] <= q[2])
  IN IF lib.tie = "first"
     THEN CHOOSE p \in best : \A q \in best : Before(p, q)
     ELSE CHOOSE p \in best : \A q \in best : Before(q, p)

MergeOf(parts, pick) ==
  LET kept == SubSeq(parts, 1, pick[2] - 1) \o SubSeq(parts, pick[2] + 1, Len(parts))
  IN [kept EXCEPT ![pick[1]] = parts[pick[1]] \cup parts[pick[2]]]

RECURSIVE Merged(_, _, _)
MergeOrStop(E, parts, pick, gain, lib) ==
  IF gain < 0 \/ (gain = 0 /\ ~lib.zero) THEN parts
  ELSE Merged(E, MergeOf(parts, pick), lib)

MergeBest(E, parts, pick, lib) ==
  MergeOrStop(E, parts, pick, Gain(E, parts[pick[1]], parts[pick[2]]), lib)

MergeStep(E, parts, pairs, lib) ==
  IF pairs = {} THEN parts
  ELSE MergeBest(E, parts, Picked(Best(pairs, Gains(E, parts, pairs)), lib), lib)

Merged(E, parts, lib) == MergeStep(E, parts, JoinedPairs(E, parts), lib)

\* The communities as lists of nodes, and the lists sorted by size.
Listed(G, parts, lib) ==
  [k \in DOMAIN parts |->
     IF lib.reversed THEN Reverse(NodeSeq(G, parts[k])) ELSE NodeSeq(G, parts[k])]

BySize(listed) == SortedDesc(listed, [k \in DOMAIN listed |-> Len(listed[k])])

\* nx.community.greedy_modularity_communities(G): the communities the call
\* returns, a partition of the nodes, sorted by size, largest first.
greedy_modularity_communities_Unmerged(G, kind, lib) == [i \in DOMAIN G.nodes |-> <<G.nodes[i]>>]
greedy_modularity_communities(G, kind, lib) ==
  BySize(Listed(G, Merged(Undirected(G, kind), [i \in DOMAIN G.nodes |-> {G.nodes[i]}], lib), lib))

\* `if len(community) >= 3`, lines 171 and 256 of the two analyzers.
MinCommunity == 3

\* The positions of the communities that are reported, in order.
Reported_All(communities) == [i \in DOMAIN communities |-> i]
Reported(communities) ==
  LET Big(i) == Len(communities[i]) >= MinCommunity
  IN SelectSeq([i \in DOMAIN communities |-> i], Big)

\* find_research_communities, lines 166-201: the loop over the communities
\* and the final sort, then the call.
research_communities_of(G, communities) ==
  LET kept == Reported(communities)
      Entry(i) ==
        LET community == communities[i]
            members == Range(community)
            inside == {e \in DOMAIN G.edges : e \subseteq members}
            authors_in_community ==
              [k \in DOMAIN community |->
                 [name |-> community[k],
                  papers_count |-> G.attrs[community[k]].total_papers,
                  collaborations_in_community |->
                    Cardinality({e \in inside : community[k] \in e})
                    + (IF {community[k]} \in inside THEN 1 ELSE 0)]]
            sorted == SortedDesc(authors_in_community,
                                 [k \in DOMAIN community |-> authors_in_community[k].papers_count])
        IN [community_id |-> i - 1,
            size |-> Len(community),
            total_papers |-> SumSeq([k \in DOMAIN community |->
                                       G.attrs[community[k]].total_papers]),
            internal_collaborations |-> Cardinality(inside),
            density |-> Ratio(2 * Cardinality(inside), Len(community) * (Len(community) - 1)),
            authors |-> sorted,
            key_authors |-> Take(sorted, KeyAuthors)]
      research_communities == [k \in DOMAIN kept |-> Entry(kept[k])]
  IN SortedDesc(research_communities,
                [k \in DOMAIN research_communities |-> research_communities[k].size])

find_research_communities(G, lib) ==
  research_communities_of(G, greedy_modularity_communities(G, "co", lib))

\* find_citation_clusters, lines 249-275: the loop over the communities and
\* the final sort, then the call.
clusters_of(G, communities) ==
  LET kept == Reported(communities)
      Entry(i) ==
        [cluster_id |-> i - 1,
         size |-> Len(communities[i]),
         documents |-> [k \in DOMAIN communities[i] |->
                          [id |-> communities[i][k],
                           authors |-> G.attrs[communities[i][k]].authors,
                           year |-> G.attrs[communities[i][k]].year]]]
      clusters == [k \in DOMAIN kept |-> Entry(kept[k])]
  IN SortedDesc(clusters, [k \in DOMAIN clusters |-> clusters[k].size])

find_citation_clusters(G, lib) ==
  clusters_of(G, greedy_modularity_communities(G, "cite", lib))


\* The characters of the strings used as author names and as queries.
Chars(str) ==
  CASE str = "Smith" -> <<"S", "m", "i", "t", "h">>
    [] str = "smith" -> <<"s", "m", "i", "t", "h">>
    [] str = "Jones" -> <<"J", "o", "n", "e", "s">>
    [] str = "Lee" -> <<"L", "e", "e">>
    [] str = "Jo" -> <<"J", "o">>
    [] str = "jo" -> <<"j", "o">>
    [] str = "e" -> <<"e">>
    [] str = "Zed" -> <<"Z", "e", "d">>
    [] OTHER -> <<>>

Queries == {"Smith", "smith", "Jo", "jo", "e", "Zed"}

\* str.lower()
LowerChar(ch) ==
  CASE ch = "S" -> "s" [] ch = "J" -> "j" [] ch = "L" -> "l" [] ch = "Z" -> "z"
    [] OTHER -> ch
lower(str) == [i \in DOMAIN Chars(str) |-> LowerChar(Chars(str)[i])]

\* `a in b` on strings, given their characters.
IsSubstring(a, b) == \E i \in 0..(Len(b) - Len(a)) : SubSeq(b, i + 1, i + Len(a)) = a

\* get_author_profile, lines 340-349: the nodes whose name contains the
\* query without regard to case, in node order, and the local `author`: the
\* query itself if it is one of them, else the first of them.
matching_authors(G, author_name) ==
  LET Matches(name) == IsSubstring(lower(author_name), lower(name))
  IN SelectSeq(G.nodes, Matches)

NoAuthor == ""
ResolveAuthor_FirstMatch(G, author_name) ==
  IF matching_authors(G, author_name) = <<>> THEN NoAuthor
  ELSE matching_authors(G, author_name)[1]
ResolveAuthor(G, author_name) ==
  IF matching_authors(G, author_name) = <<>> THEN NoAuthor
  ELSE IF author_name \in Range(matching_authors(G, author_name)) THEN author_name
  ELSE matching_authors(G, author_name)[1]

\* sorted(papers, key=lambda x: x.get('year', 0), reverse=True), line 383:
\* every paper record has the key 'year' (line 59), so the default 0 is never
\* used and a paper without a year has the key None; Python's sort compares
\* every element of a list of two or more with another one, and a comparison
\* with None raises TypeError.
YearKey(paper) == paper.year
SortRaises(keys) == Len(keys) >= 2 /\ \E i \in DOMAIN keys : keys[i] = NoYear

\* sorted(list(set(...))): the members of a set of integers, ascending.
RECURSIVE Ascending(_)
Ascending(S) ==
  IF S = {} THEN <<>>
  ELSE LET m == CHOOSE x \in S : \A y \in S : x <= y
       IN <<m>> \o Ascending(S \ {m})

\* get_author_profile, lines 337-387.  No try block: what raises reaches the
\* caller.
get_author_profile(G, author_name) ==
  LET author == ResolveAuthor(G, author_name)
      papers == G.attrs[author].papers
      nbrs == G.adj[author]
      found == [k \in DOMAIN nbrs |->
                  [name |-> nbrs[k],
                   collaboration_count |-> G.edges[EdgeKey(author, nbrs[k])].weight,
                   shared_papers |-> G.edges[EdgeKey(author, nbrs[k])].papers]]
      collaborators == SortedDesc(found, [k \in DOMAIN found |-> found[k].collaboration_count])
      Shared(paper) == \E k \in DOMAIN collaborators :
                         \E j \in DOMAIN collaborators[k].shared_papers :
                           collaborators[k].shared_papers[j].id = paper.id
      total_papers == Len(papers)
      collaborative_papers == Cardinality({i \in DOMAIN papers : Shared(papers[i])})
      keys == [i \in DOMAIN papers |-> YearKey(papers[i])]
  IN IF author = NoAuthor
     THEN Returned([error |-> "not found", query |-> author_name])
     ELSE IF SortRaises(keys) THEN Raised("TypeError")
     ELSE Returned(
            [name |-> author,
             total_papers |-> total_papers,
             collaborative_papers |-> collaborative_papers,
             solo_papers |-> total_papers - collaborative_papers,
             unique_collaborators |-> Len(collaborators),
             collaboration_rate |-> IF total_papers > 0
                                    THEN Ratio(collaborative_papers, total_papers) ELSE Zero,
             papers |-> SortedDesc(papers, keys),
             collaborators |-> collaborators,
             top_collaborators |-> Take(collaborators, TopAuthors),
             years_active |-> Ascending({papers[i].year : i \in DOMAIN papers} \ {NoYear})])

\* What each operation hands to its caller from the graph it built.
Analysis(o, a, G, fails, lib) ==
  CASE o \in {"build_citation_network", "build_coauthorship_network"} -> G
    [] o = "analyze_citation_patterns" -> analyze_citation_patterns(G, fails, lib)
    [] o = "analyze_author_centrality" -> analyze_author_centrality(G, fails, lib)
    [] o = "find_citation_clusters" -> find_citation_clusters(G, lib)
    [] o = "find_research_communities" -> find_research_communities(G, lib)
    [] o = "get_most_collaborative_authors" -> get_most_collaborative_authors(G, a.limit)

Run(o, a, G, fails, lib) ==
  IF o = "get_author_profile" THEN get_author_profile(G, a.author_name)
  ELSE Returned(Analysis(o, a, G, fails, lib))

\* get_most_cited_papers, lines 78-109.  The arguments of the outer
\* session.query(...) are evaluated first: session.query(Citation)
\* .filter(...).count() runs a COUNT and is a Python int, the number of
\* citation rows with a cited_document_id (NULL = NULL is not true), and an
\* int has no attribute `label`.  The function has try/finally and no except.
get_most_cited_papers(docs, cits, limit) ==
  LET count == Cardinality({k \in DOMAIN cits : IsInternal(cits[k])})
  IN IF count \in Nat THEN Raised("AttributeError") ELSE Returned(<<>>)

\* get_most_citing_papers, lines 127-136 of citation_analyzer.py: the same
\* Query.count().label('count') among the arguments of session.query.
get_most_citing_papers(docs, cits, limit) ==
  LET count == Len(cits)
  IN IF count \in Nat THEN Raised("AttributeError") ELSE Returned(<<>>)

\* get_citation_timeline, lines 214-224 of citation_analyzer.py: the first
\* argument after Document.publication_year is
\* session.query(Citation).filter(...).count().label('citations_made').
get_citation_timeline(docs, cits) ==
  LET count == Len(cits)
  IN IF count \in Nat THEN Raised("AttributeError")
     ELSE Returned([timeline |-> <<>>, total_years |-> 0, year_range |-> <<NoYear, NoYear>>])

\* filter(Document.publication_year.isnot(None)), lines 276-278 of
\* coauthorship_analyzer.py.
WithYear(docs) ==
  LET Dated(doc) == doc.year # NoYear
  IN SelectSeq(docs, Dated)

\* The defaultdict's entry of a year met for the first time, lines 280-286.
NewYear == [total_papers |-> 0, collaborative_papers |-> 0, solo_papers |-> 0,
            unique_authors |-> {}, unique_collaborations |-> {}]

\* One document of the loop, lines 288-303.  tuple(sorted([author1,
\* author2])), for author1 at position i and author2 after it, is given by
\* the set of its names.
YearAdd(timeline, doc) ==
  LET year == doc.year
      authors == doc.authors
      t0 == IF year \in DOMAIN timeline THEN timeline ELSE (year :> NewYear) @@ timeline
      pairs == {EdgeKey(authors[i], authors[j]) :
                  <<i, j>> \in {p \in (DOMAIN authors) \X (DOMAIN authors) : p[1] < p[2]}}
  IN [t0 EXCEPT ![year] =
        [total_papers |-> @.total_papers + 1,
         collaborative_papers |-> @.collaborative_papers + (IF Len(authors) > 1 THEN 1 ELSE 0),
         solo_papers |-> @.solo_papers + (IF Len(authors) > 1 THEN 0 ELSE 1),
         unique_authors |-> @.unique_authors \cup Range(authors),
         unique_collaborations |->
           IF Len(authors) > 1 THEN @.unique_collaborations \cup pairs
           ELSE @.unique_collaborations]]

RECURSIVE TimelineFrom(_, _, _)
TimelineFrom(timeline, docs, k) ==
  IF k > Len(docs) THEN timeline
  ELSE TimelineFrom(YearAdd(timeline, docs[k]), docs, k + 1)

Min(S) == CHOOSE x \in S : \A y \in S : x <= y

\* get_collaboration_timeline, lines 275-322 of coauthorship_analyzer.py.
get_collaboration_timeline(docs) ==
  LET timeline == TimelineFrom(<<>>, WithYear(docs), 1)
      final_timeline ==
        [year \in DOMAIN timeline |->
           [total_papers |-> timeline[year].total_papers,
            collaborative_papers |-> timeline[year].collaborative_papers,
            solo_papers |-> timeline[year].solo_papers,
            unique_authors |-> Cardinality(timeline[year].unique_authors),
            unique_collaborations |-> Cardinality(timeline[year].unique_collaborations),
            collaboration_rate |->
              IF timeline[year].total_papers > 0
              THEN Ratio(timeline[year].collaborative_papers, timeline[year].total_papers)
              ELSE Zero]]
  IN Returned([timeline |-> final_timeline,
               total_years |-> Cardinality(DOMAIN final_timeline),
               year_range |-> IF DOMAIN final_timeline # {}
                              THEN <<Min(DOMAIN final_timeline), Max(DOMAIN final_timeline)>>
                              ELSE <<NoYear, NoYear>>])

\* What an operation that reads the store itself hands back.
Query(o, a, docs, cits) ==
  CASE o = "get_most_cited_papers" -> get_most_cited_papers(docs, cits, a.limit)
    [] o = "get_most_citing_papers" -> get_most_citing_papers(docs, cits, a.limit)
    [] o = "get_citation_timeline" -> get_citation_timeline(docs, cits)
    [] o = "get_collaboration_timeline" -> get_collaboration_timeline(docs)

\* --------------------------------------------------------------- the store

\* store_document, lines 67-110: the committed transaction adds the document
\* (id autoincremented), its authors in the order given, and one Citation per
\* extracted citation, none with a cited_document_id.
NewCitations_SelfCiting(id, ncit) ==
  [k \in 1..ncit |-> [citing |-> id, cited |-> id, text |-> Len(citations) + k]]
NewCitations(id, ncit) ==
  [k \in 1..ncit |-> [citing |-> id, cited |-> NoId, text |-> Len(citations) + k]]

InFlight == {c \in Ctx : pc[c] \in {"session", "built"}}

\* What a committed write does to the history: the graphs built so far are
\* of an older store, and every call begun and not yet handed back has seen
\* the store change since it began.
Wrote(h) == [h EXCEPT !.last = [k \in DOMAIN @ |-> NoGraph],
                      !.prev = [k \in DOMAIN @ |-> NoGraph],
                      !.builds = [k \in DOMAIN @ |-> 0],
                      !.dirty = [c \in Ctx |-> @[c] \/ pc[c] # "idle"]]

StoreDocument(authors, year, ncit) ==
  /\ Len(documents) < MaxDocs
  /\ LET id == Len(documents) + 1
     IN /\ documents' = Append(documents, [id |-> id, authors |-> authors, year |-> year])
        /\ citations' = citations \o NewCitations(id, ncit)
  /\ hist' = Wrote(hist)
  /\ UNCHANGED <<store, cli, storeUp, outages, pc, op, arg, graphs, sessions, outcome>>

\* The resolver of citation targets (not part of the analyzers): a citation
\* record gets the id of the corpus document it cites.
ResolveCitation(k, target) ==
  /\ k \in DOMAIN citations
  /\ citations[k].cited = NoId
  /\ target \in {documents[i].id : i \in DOMAIN documents}
  /\ citations' = [citations EXCEPT ![k].cited = target]
  /\ hist' = Wrote(hist)
  /\ UNCHANGED <<store, cli, documents, storeUp, outages, pc, op, arg, graphs, sessions, outcome>>

\* The database becomes unreadable, and readable again.
StoreFails ==
  /\ storeUp
  /\ outages < MaxOutages
  /\ storeUp' = FALSE
  /\ outages' = outages + 1
  /\ UNCHANGED <<store, cli, documents, citations, pc, op, arg, graphs, sessions, outcome, hist>>

StoreRecovers ==
  /\ ~storeUp
  /\ storeUp' = TRUE
  /\ UNCHANGED <<store, cli, documents, citations, outages, pc, op, arg, graphs, sessions, outcome, hist>>


\* ------------------------------------------- store_document, step by step

\* The frame of a store_document call (lines 38-117): pc, its position;
\* authors, year, ncit, keywords, malformed, its arguments (malformed: one of
\* the entries of `citations` is not a dict); document, the Document it made;
\* added, the Citation objects it added to the session; open, whether its
\* session is open; result, what it hands to its caller; before, the rows
\* committed when it was called; failed, the position at which it raised.
NoDocument == [id |-> NoId, authors |-> <<>>, year |-> NoYear]
NoStore == [pc |-> "none", authors |-> <<>>, year |-> NoYear, ncit |-> 0,
            keywords |-> FALSE, malformed |-> FALSE,
            document |-> NoDocument, added |-> <<>>, open |-> FALSE,
            result |-> NoOutcome,
            before |-> [documents |-> <<>>, citations |-> <<>>], failed |-> "none"]

\* sessionmaker(autocommit=False, autoflush=False), line 30: a flush sends
\* the rows to the database inside the transaction of the session, where no
\* other session reads them; the commit adds them to the committed rows.
session_flush_Autocommit(rows, pending) == rows \o pending
session_flush(rows, pending) == rows
session_commit(rows, pending) == rows \o pending

\* `session = self.get_session()`, line 67, and the Document object of
\* lines 71-78.
StoreFrame(authors, year, ncit, keywords, malformed) ==
  [NoStore EXCEPT !.pc = "created", !.authors = authors, !.year = year,
                  !.ncit = ncit, !.keywords = keywords,
                  !.malformed = malformed, !.open = TRUE,
                  !.before = [documents |-> documents, citations |-> citations]]

store_document(authors, year, ncit, keywords, malformed) ==
  /\ store.pc = "none"
  /\ Len(documents) < MaxDocs
  /\ store' = StoreFrame(authors, year, ncit, keywords, malformed)
  /\ UNCHANGED <<cli, documents, citations, storeUp, outages, pc, op, arg, graphs, sessions,
                 outcome, hist>>

\* `except Exception: session.rollback(); raise` and `finally:
\* session.close()`, lines 112-117: what the session held is dropped, the
\* session is closed and the exception e goes to the caller.
Rollback(e) ==
  /\ store' = [store EXCEPT !.pc = "raised", !.document = NoDocument, !.added = <<>>,
                            !.open = FALSE, !.result = Raised(e), !.failed = store.pc]
  /\ UNCHANGED <<documents, citations, hist>>

\* session.add(document); session.flush(), lines 80-81: the document gets
\* its id.
store_flush ==
  /\ store.pc = "created"
  /\ IF storeUp
     THEN LET document == [id |-> Len(documents) + 1, authors |-> <<>>, year |-> store.year]
          IN /\ store' = [store EXCEPT !.pc = "authors", !.document = document]
             /\ documents' = session_flush(documents, <<document>>)
             /\ UNCHANGED <<citations, hist>>
     ELSE Rollback("OperationalError")
  /\ UNCHANGED <<cli, storeUp, outages, pc, op, arg, graphs, sessions, outcome>>

\* One turn of the loop of lines 84-87: _get_or_create_author queries and
\* flushes, then the author is appended to document.authors.
store_author ==
  /\ store.pc = "authors"
  /\ Len(store.document.authors) < Len(store.authors)
  /\ IF storeUp
     THEN /\ store' = [store EXCEPT !.document.authors =
                                      Append(@, store.authors[Len(@) + 1])]
          /\ UNCHANGED <<documents, citations, hist>>
     ELSE Rollback("OperationalError")
  /\ UNCHANGED <<cli, storeUp, outages, pc, op, arg, graphs, sessions, outcome>>

\* Lines 90-93: the keywords, if there are any, are looked up and attached.
store_keywords ==
  /\ store.pc = "authors"
  /\ Len(store.document.authors) = Len(store.authors)
  /\ IF store.keywords /\ ~storeUp
     THEN Rollback("OperationalError")
     ELSE /\ store' = [store EXCEPT !.pc = "citations"]
          /\ UNCHANGED <<documents, citations, hist>>
  /\ UNCHANGED <<cli, storeUp, outages, pc, op, arg, graphs, sessions, outcome>>

\* Lines 96-106: one Citation per entry is added to the session;
\* citation_data.get raises AttributeError on an entry that is not a dict.
store_citations ==
  /\ store.pc = "citations"
  /\ IF store.malformed
     THEN Rollback("AttributeError")
     ELSE /\ store' = [store EXCEPT !.pc = "commit",
                                    !.added = NewCitations(store.document.id, store.ncit)]
          /\ UNCHANGED <<documents, citations, hist>>
  /\ UNCHANGED <<cli, storeUp, outages, pc, op, arg, graphs, sessions, outcome>>

\* session.commit(); return document, lines 108-110, and the `finally`.
store_commit ==
  /\ store.pc = "commit"
  /\ IF storeUp
     THEN /\ documents' = session_commit(documents, <<store.document>>)
          /\ citations' = session_commit(citations, store.added)
          /\ hist' = Wrote(hist)
          /\ store' = [store EXCEPT !.pc = "returned", !.open = FALSE,
                                    !.result = Returned(store.document)]
     ELSE Rollback("OperationalError")
  /\ UNCHANGED <<cli, storeUp, outages, pc, op, arg, graphs, sessions, outcome>>

\* The caller has taken the result; the frame is gone.
store_return ==
  /\ store.pc \in {"returned", "raised"}
  /\ store' = NoStore
  /\ UNCHANGED <<cli, documents, citations, storeUp, outages, pc, op, arg, graphs, sessions,
                 outcome, hist>>

\* ------------------------------------------------------ process_directory

\* The frame of a process_directory run (cli.py, lines 100-134): pc, its
\* position; pdf_files, the selected files; i, the number of files the loop
\* has taken; successful and failed, its counters; results, what
\* process_single_pdf returned for each file taken; stored and embedded,
\* the files whose document is in the document store and in the vector
\* store.  A file is what the processor and the store make of it: readable
\* (process_pdf returns), its authors, keywords and citations.
NoCli == [pc |-> "none", pdf_files |-> <<>>, i |-> 0, successful |-> 0, failed |-> 0,
          results |-> <<>>, stored |-> {}, embedded |-> {}]

Unreadable == [readable |-> FALSE, authors |-> <<>>, keywords |-> FALSE, ncit |-> 0,
               malformed |-> FALSE]
Paper == [readable |-> TRUE, authors |-> <<"Smith", "Jones">>, keywords |-> TRUE, ncit |-> 1,
          malformed |-> FALSE]
BadCitations == [readable |-> TRUE, authors |-> <<"Lee">>, keywords |-> FALSE, ncit |-> 1,
                 malformed |-> TRUE]
Files == {Unreadable, Paper, BadCitations}

\* `if max_files: pdf_files = pdf_files[:max_files]`, lines 113-114; None
\* is 0 here, and 0 selects every file as None does.
Selected(pdf_files, max_files) ==
  IF max_files # 0 THEN Take(pdf_files, max_files) ELSE pdf_files

process_directory(pdf_files, max_files) ==
  /\ cli.pc = "none"
  /\ store.pc = "none"
  /\ cli' = [NoCli EXCEPT !.pc = "loop", !.pdf_files = Selected(pdf_files, max_files)]
  /\ UNCHANGED <<store, documents, citations, storeUp, outages, pc, op, arg, graphs, sessions,
                 outcome, hist>>

\* `for i, pdf_file in enumerate(pdf_files, 1)`, line 121: the loop ends
\* when the files are exhausted.
Exhausted_OnFailure(frame) ==
  frame.i = Len(frame.pdf_files) \/ (frame.i > 0 /\ ~frame.results[frame.i])
Exhausted(frame) == frame.i = Len(frame.pdf_files)

\* Lines 124-127: the counters after process_single_pdf returned ok.
Counted(frame, ok) ==
  [frame EXCEPT !.pc = "loop",
                !.results = Append(@, ok),
                !.successful = IF ok THEN @ + 1 ELSE @,
                !.failed = IF ok THEN @ ELSE @ + 1]

\* The loop takes the next file and process_single_pdf (lines 46-71) runs
\* the processor on it: process_pdf raises on a file it cannot read, the
\* `except Exception` of line 95 returns False; else store_document is
\* called with what was extracted.
process_single_pdf ==
  /\ cli.pc = "loop"
  /\ ~Exhausted(cli)
  /\ LET file == cli.pdf_files[cli.i + 1]
         taken == [cli EXCEPT !.i = @ + 1]
     IN IF file.readable
        THEN /\ cli' = [taken EXCEPT !.pc = "storing"]
             /\ store' = StoreFrame(file.authors, NoYear, file.ncit, file.keywords, file.malformed)
        ELSE /\ cli' = Counted(taken, FALSE)
             /\ UNCHANGED store
  /\ UNCHANGED <<documents, citations, storeUp, outages, pc, op, arg, graphs, sessions,
                 outcome, hist>>

\* `document.id`, line 77 of cli.py, on what store_document returned.  The
\* session was made with the default expire_on_commit (document_storage.py,
\* line 30): the commit of line 108 expired the attributes of the document
\* and the close of line 117 detached it, so reading an attribute raises.
document_id(result) == Raised("DetachedInstanceError")

\* store_document is back in process_single_pdf (lines 72-97): an exception
\* of store_document, of document.id or of the vector store is caught at
\* line 95 and False returned; else the document is added to the vector
\* store and True returned.
process_single_pdf_stored ==
  /\ cli.pc = "storing"
  /\ store.pc \in {"returned", "raised"}
  /\ store' = NoStore
  /\ LET committed == IF store.pc = "returned" THEN cli.stored \cup {cli.i} ELSE cli.stored
         id == IF store.pc = "returned" THEN document_id(store.result) ELSE store.result
         ok == id.kind = "return"
         frame == [cli EXCEPT !.stored = committed,
                              !.embedded = IF ok THEN @ \cup {cli.i} ELSE @]
     IN cli' = Counted(frame, ok)
  /\ UNCHANGED <<documents, citations, storeUp, outages, pc, op, arg, graphs, sessions,
                 outcome, hist>>

\* Line 133: the loop is over and the totals are logged.
process_directory_complete ==
  /\ cli.pc = "loop"
  /\ Exhausted(cli)
  /\ cli' = [cli EXCEPT !.pc = "complete"]
  /\ UNCHANGED <<store, documents, citations, storeUp, outages, pc, op, arg, graphs, sessions,
                 outcome, hist>>

\* ------------------------------------------------------- an analysis call

\* G is a local variable of the call (lines 39 and 160, 214, ...): each
\* execution context has a graph of its own.
GraphSlot_Shared(c, o) == IF Kind(o) = "co" THEN 1 ELSE 2
GraphSlot(c, o) == c

\* An exception of the build reaches the caller of every operation: each
\* calls build_*() before its own try block, if it has one, and build_*()
\* has a `finally` but no `except`.
OnBuildError_Swallowed(o, e) ==
  IF o \in {"find_research_communities", "find_citation_clusters"}
  THEN Returned(<<>>) ELSE Raised(e)
OnBuildError(o, e) == Raised(e)

\* The caller enters the operation, which enters build_*(): the session is
\* opened (line 35) and the graph created empty (line 39).
Call(c, o, a) ==
  /\ pc[c] = "idle"
  /\ pc' = [pc EXCEPT ![c] = "session"]
  /\ op' = [op EXCEPT ![c] = o]
  /\ arg' = [arg EXCEPT ![c] = a]
  /\ sessions' = sessions \cup {c}
  /\ graphs' = [graphs EXCEPT ![GraphSlot(c, o)] =
                  IF o \in QueryOps THEN NoGraph
                  ELSE IF Kind(o) = "co" THEN nx_Graph ELSE nx_DiGraph]
  /\ outcome' = [outcome EXCEPT ![c] = NoOutcome]
  /\ hist' = [hist EXCEPT !.start[c] = Len(documents)]
  /\ UNCHANGED <<store, cli, documents, citations, storeUp, outages>>

\* The graph build_coauthorship_network / build_citation_network makes of
\* the rows read, starting from the graph G it created.
BuildGraph(k, G, docs, cits) ==
  IF k = "co" THEN CoAuthorshipFrom(G, docs, 1) ELSE CitationFrom(G, docs, cits)

\* `finally: session.close()`: the session is closed on the way out,
\* whether by return or by exception.
session_close_OnReturn(c) == IF storeUp THEN sessions \ {c} ELSE sessions
session_close(c) == sessions \ {c}

\* build_*(): the queries (lines 44-45) and the loops that fill the graph.
\* The operations that query the store themselves do so in the same step
\* and are done.
Load(c) ==
  /\ pc[c] = "session"
  /\ sessions' = session_close(c)
  /\ IF storeUp /\ op[c] \in QueryOps
     THEN /\ outcome' = [outcome EXCEPT ![c] = Query(op[c], arg[c], documents, citations)]
          /\ pc' = [pc EXCEPT ![c] = "done"]
          /\ UNCHANGED <<graphs, hist>>
     ELSE IF storeUp
     THEN LET k == Kind(op[c])
              G == BuildGraph(k, graphs[GraphSlot(c, op[c])], documents, citations)
          IN /\ graphs' = [graphs EXCEPT ![GraphSlot(c, op[c])] = G]
             /\ pc' = [pc EXCEPT ![c] = "built"]
             /\ outcome' = outcome
             /\ hist' = IF op[c] \in {"build_citation_network", "build_coauthorship_network"}
                        THEN [hist EXCEPT !.prev[k] = hist.last[k],
                                          !.last[k] = G,
                                          !.builds[k] = IF @ < 2 THEN @ + 1 ELSE @]
                        ELSE hist
     ELSE /\ outcome' = [outcome EXCEPT ![c] = OnBuildError(op[c], "StoreReadFailure")]
          /\ pc' = [pc EXCEPT ![c] = "done"]
          /\ graphs' = graphs
          /\ hist' = [hist EXCEPT !.readFailed[c] = TRUE]
  /\ UNCHANGED <<store, cli, documents, citations, storeUp, outages, op, arg>>

\* The rest of the operation, on the graph it holds.  fails: the networkx
\* call that raises in this run, if one does; lib: what the library computes
\* in it.
Failures(o) == {{}} \cup {{m} : m \in Fallible(o)}

Compute(c, fails, lib) ==
  /\ pc[c] = "built"
  /\ fails \in Failures(op[c])
  /\ lib \in LibraryChoices(op[c])
  /\ outcome' = [outcome EXCEPT ![c] =
                    Run(op[c], arg[c], graphs[GraphSlot(c, op[c])], fails, lib)]
  /\ pc' = [pc EXCEPT ![c] = "done"]
  /\ hist' = [hist EXCEPT !.failed[c] = fails,
                          !.lib[c] = lib,
                          !.author[c] =
                            IF op[c] = "get_author_profile"
                            THEN ResolveAuthor(graphs[GraphSlot(c, op[c])], arg[c].author_name)
                            ELSE NoAuthor]
  /\ UNCHANGED <<store, cli, documents, citations, storeUp, outages, op, arg, graphs, sessions>>

\* The caller takes the outcome; the frame and its graph are gone.
Return(c) ==
  /\ pc[c] = "done"
  /\ pc' = [pc EXCEPT ![c] = "idle"]
  /\ op' = [op EXCEPT ![c] = "none"]
  /\ arg' = [arg EXCEPT ![c] = NoArg]
  /\ graphs' = [graphs EXCEPT ![GraphSlot(c, op[c])] = NoGraph]
  /\ outcome' = [outcome EXCEPT ![c] = NoOutcome]
  /\ hist' = [hist EXCEPT !.dirty[c] = FALSE,
                          !.start[c] = 0,
                          !.readFailed[c] = FALSE,
                          !.failed[c] = {},
                          !.lib[c] = DefaultLib,
                          !.author[c] = NoAuthor,
                          !.raisedBefore[c] = @ \/ outcome[c].kind = "raise"]
  /\ UNCHANGED <<store, cli, documents, citations, storeUp, outages, sessions>>

\* ----------------------------------------------------------- specifications

Kinds == {"cite", "co"}

\* last, prev, builds: per kind of graph, the last two graphs that direct calls
\* of build_*() returned since the last write, and how many there were.
\* Per context: dirty, the store was written since its call began;
\* start, the number of documents committed when its call began; readFailed,
\* its build hit a failing read; failed, the networkx calls that raised in it;
\* lib, what the library computed in it; author, the local `author` of
\* get_author_profile;
\* raisedBefore, an earlier call of the context raised.
NoHistory ==
  [last |-> [k \in Kinds |-> NoGraph],
   prev |-> [k \in Kinds |-> NoGraph],
   builds |-> [k \in Kinds |-> 0],
   dirty |-> [c \in Ctx |-> FALSE],
   start |-> [c \in Ctx |-> 0],
   readFailed |-> [c \in Ctx |-> FALSE],
   failed |-> [c \in Ctx |-> {}],
   lib |-> [c \in Ctx |-> DefaultLib],
   author |-> [c \in Ctx |-> NoAuthor],
   raisedBefore |-> [c \in Ctx |-> FALSE]]

Init ==
  /\ documents = <<>>
  /\ citations = <<>>
  /\ storeUp = TRUE
  /\ outages = 0
  /\ pc = [c \in Ctx |-> "idle"]
  /\ op = [c \in Ctx |-> "none"]
  /\ arg = [c \in Ctx |-> NoArg]
  /\ graphs = [c \in Ctx |-> NoGraph]
  /\ sessions = {}
  /\ outcome = [c \in Ctx |-> NoOutcome]
  /\ hist = NoHistory
  /\ store = NoStore
  /\ cli = NoCli

\* The author lists of scenario B.
ScenarioAuthorLists == {<<"Smith", "Jones">>, <<"Jones", "Lee">>, <<"Smith">>}

\* One context, whose calls and the writes follow one another; both
\* analyzers; a small corpus.
Next ==
  \/ \E authors \in ScenarioAuthorLists, ncit \in 0..1 :
        InFlight = {} /\ StoreDocument(authors, NoYear, ncit)
  \/ \E k \in DOMAIN citations, t \in 1..MaxDocs : InFlight = {} /\ ResolveCitation(k, t)
  \/ \E o \in {"build_citation_network", "build_coauthorship_network",
               "analyze_citation_patterns", "analyze_author_centrality"} : Call(1, o, NoArg)
  \/ Load(1)
  \/ \E fails \in Failures(op[1]) : Compute(1, fails, DefaultLib)
  \/ Return(1)

Spec == Init /\ [][Next]_vars

\* The collaboration graph over every author list up to MaxAuthors names.
NextCo ==
  \/ \E authors \in AuthorLists : InFlight = {} /\ StoreDocument(authors, NoYear, 0)
  \/ \E o \in {"build_coauthorship_network", "analyze_author_centrality"} : Call(1, o, NoArg)
  \/ Load(1)
  \/ \E fails \in Failures(op[1]) : Compute(1, fails, DefaultLib)
  \/ Return(1)

SpecCo == Init /\ [][NextCo]_vars

\* The citation graph over documents with up to MaxCites citations each.
NextCite ==
  \/ \E ncit \in 0..MaxCites : InFlight = {} /\ StoreDocument(<<"Smith">>, NoYear, ncit)
  \/ \E k \in DOMAIN citations, t \in 1..MaxDocs : InFlight = {} /\ ResolveCitation(k, t)
  \/ \E o \in {"build_citation_network", "analyze_citation_patterns"} : Call(1, o, NoArg)
  \/ Load(1)
  \/ \E fails \in Failures(op[1]) : Compute(1, fails, DefaultLib)
  \/ Return(1)

SpecCite == Init /\ [][NextCite]_vars


\* Two documents, the first citing the second, as a store holds them once
\* the citation is resolved.
SeedDocuments == <<[id |-> 1, authors |-> <<"Smith", "Jones">>, year |-> NoYear],
                   [id |-> 2, authors |-> <<"Jones", "Lee">>, year |-> NoYear]>>
SeedCitations == <<[citing |-> 1, cited |-> 2, text |-> 1],
                   [citing |-> 1, cited |-> NoId, text |-> 2]>>

InitSeeded ==
  /\ \/ documents = <<>> /\ citations = <<>>
     \/ documents = SeedDocuments /\ citations = SeedCitations
  /\ storeUp = TRUE
  /\ outages = 0
  /\ pc = [c \in Ctx |-> "idle"]
  /\ op = [c \in Ctx |-> "none"]
  /\ arg = [c \in Ctx |-> NoArg]
  /\ graphs = [c \in Ctx |-> NoGraph]
  /\ sessions = {}
  /\ outcome = [c \in Ctx |-> NoOutcome]
  /\ hist = NoHistory
  /\ store = NoStore
  /\ cli = NoCli

AnalysisOps ==
  (CiteOps \cup CoOps) \ {"build_citation_network", "build_coauthorship_network"}
Args(o) ==
  IF o = "get_author_profile"
  THEN {[NoArg EXCEPT !.author_name = q] : q \in {"smith", "Zed"}}
  ELSE {NoArg}

\* The host application: the execution contexts call the analysis operations
\* of the two shared analyzer objects (web/app.py, lines 42-43) while
\* documents are stored.
NextConc ==
  \/ \E authors \in {<<"Smith", "Jones">>, <<"Lee">>} : StoreDocument(authors, NoYear, 0)
  \/ \E c \in Ctx, o \in AnalysisOps : \E a \in Args(o) : Call(c, o, a)
  \/ \E c \in Ctx : Load(c)
  \/ \E c \in Ctx : Compute(c, {}, DefaultLib)
  \/ \E c \in Ctx : Return(c)

SpecConc == InitSeeded /\ [][NextConc]_vars

\* One context calling the analysis operations while documents are stored
\* and the database fails and recovers.
NextFail ==
  \/ \E authors \in {<<"Smith", "Jones">>, <<"Lee">>} : StoreDocument(authors, NoYear, 0)
  \/ StoreFails
  \/ StoreRecovers
  \/ \E o \in AnalysisOps : \E a \in Args(o) : Call(1, o, a)
  \/ Load(1)
  \/ Compute(1, {}, DefaultLib)
  \/ Return(1)

SpecFail == InitSeeded /\ [][NextFail]_vars

\* Author profiles: one context storing documents with and without a year,
\* whose authors include a name contained in another one, and asking for
\* profiles by full name, by part of a name and by a name nobody has.
ProfileAuthorLists ==
  {<<"Jones", "Jo">>, <<"Jo", "Jones">>, <<"Jo">>, <<"Smith", "Jones">>, <<"Lee">>,
   <<"Lee", "Lee">>}
ProfileYears == {NoYear, 2020, 2021}

NextProfile ==
  \/ \E authors \in ProfileAuthorLists, year \in ProfileYears :
        InFlight = {} /\ StoreDocument(authors, year, 0)
  \/ \E q \in Queries : Call(1, "get_author_profile", [NoArg EXCEPT !.author_name = q])
  \/ Load(1)
  \/ Compute(1, {}, DefaultLib)
  \/ Return(1)

SpecProfile == Init /\ [][NextProfile]_vars

\* The most collaborative authors of every corpus of author lists up to
\* MaxAuthors names, asked for with several limits.
Limits == {1, 2, DefaultLimit}

NextCollab ==
  \/ \E authors \in AuthorLists : InFlight = {} /\ StoreDocument(authors, NoYear, 0)
  \/ \E n \in Limits : Call(1, "get_most_collaborative_authors", [NoArg EXCEPT !.limit = n])
  \/ Load(1)
  \/ Compute(1, {}, DefaultLib)
  \/ Return(1)

SpecCollab == Init /\ [][NextCollab]_vars

\* The most cited papers of documents with up to MaxCites citations each,
\* asked for with several limits.
NextCited ==
  \/ \E year \in {NoYear, 2020}, ncit \in 0..MaxCites :
       InFlight = {} /\ StoreDocument(<<"Smith">>, year, ncit)
  \/ \E k \in DOMAIN citations, t \in 1..MaxDocs : InFlight = {} /\ ResolveCitation(k, t)
  \/ \E n \in Limits : Call(1, "get_most_cited_papers", [NoArg EXCEPT !.limit = n])
  \/ Call(1, "get_citation_timeline", NoArg)
  \/ Load(1)
  \/ Return(1)

SpecCited == Init /\ [][NextCited]_vars

\* Corpora large enough for the rankings to be cut: n documents whose author
\* lists overlap by one name, so that the authors form a chain of groups,
\* and whose citations follow one of three patterns.
MaxSeedDocs == 7
Pool == <<"A01", "A02", "A03", "A04", "A05", "A06", "A07", "A08", "A09", "A10",
          "A11", "A12", "A13", "A14", "A15", "A16", "A17", "A18", "A19", "A20">>
SeedSizes == {3, MaxSeedDocs - 1, MaxSeedDocs}
SeedWidths == {1, 2}
SeedPatterns == {"none", "star", "chain", "split"}
\* The citation records of n documents once their targets are resolved.
SeedCitationsOf(n, pattern) ==
  IF pattern = "none" THEN <<>>
  ELSE [i \in 1..(n - 1) |->
          [citing |-> i,
           cited |-> CASE pattern = "star" -> n
                       [] pattern = "chain" -> i + 1
                       [] pattern = "split" -> IF i = 2 THEN NoId ELSE i + 1,
           text |-> i]]
SeedCorpus(n, w, pattern) ==
  [documents |-> [i \in 1..n |-> [id |-> i,
                                   authors |-> SubSeq(Pool, (i - 1) * w + 1, i * w + 1),
                                   year |-> NoYear]],
   citations |-> SeedCitationsOf(n, pattern)]
SeedCorpora == {SeedCorpus(n, w, p) : n \in SeedSizes, w \in SeedWidths, p \in SeedPatterns}

InitCorpus(corpora) ==
  /\ \E corpus \in corpora : documents = corpus.documents /\ citations = corpus.citations
  /\ storeUp = TRUE
  /\ outages = 0
  /\ pc = [c \in Ctx |-> "idle"]
  /\ op = [c \in Ctx |-> "none"]
  /\ arg = [c \in Ctx |-> NoArg]
  /\ graphs = [c \in Ctx |-> NoGraph]
  /\ sessions = {}
  /\ outcome = [c \in Ctx |-> NoOutcome]
  /\ hist = NoHistory
  /\ store = NoStore
  /\ cli = NoCli

\* The two overviews of a stored corpus, with every score table the library
\* may hand back.
NextRanked ==
  \/ \E o \in {"analyze_citation_patterns", "analyze_author_centrality"} : Call(1, o, NoArg)
  \/ Load(1)
  \/ \E lib \in LibraryChoices(op[1]) : Compute(1, {}, lib)
  \/ Return(1)

SpecRanked == InitCorpus(SeedCorpora) /\ [][NextRanked]_vars

\* Corpora of separate groups of authors: document i is written by the next
\* sizes[i] names of the pool, and the last author of every group of two or
\* more has a paper of their own besides.
MaxGroup == 5
GroupSizes == {<<3, 5, 2, 1>>, <<5, 3, 1, 2>>, <<3, 6, 2>>}
                \cup {<<a, b>> : a, b \in 3..MaxGroup}
GroupStart(sizes, i) == 1 + SumSeq(SubSeq(sizes, 1, i - 1))
GroupCorpus(sizes) ==
  LET groups == [i \in DOMAIN sizes |->
                   [id |-> i,
                    authors |-> SubSeq(Pool, GroupStart(sizes, i),
                                       GroupStart(sizes, i) + sizes[i] - 1),
                    year |-> NoYear]]
      Joint(i) == sizes[i] >= 2
      joint == SelectSeq([i \in DOMAIN sizes |-> i], Joint)
      solos == [k \in DOMAIN joint |->
                  [id |-> Len(sizes) + k,
                   authors |-> <<Pool[GroupStart(sizes, joint[k]) + sizes[joint[k]] - 1]>>,
                   year |-> NoYear]]
  IN [documents |-> groups \o solos, citations |-> <<>>]
GroupCorpora == {GroupCorpus(sizes) : sizes \in GroupSizes}

\* The communities and the clusters of a stored corpus, with every partition
\* and member order the library may hand back.
NextCommunities ==
  \/ \E o \in {"find_research_communities", "find_citation_clusters"} : Call(1, o, NoArg)
  \/ Load(1)
  \/ \E lib \in LibraryChoices(op[1]) : Compute(1, {}, lib)
  \/ Return(1)

SpecCommunities == InitCorpus(SeedCorpora \cup GroupCorpora) /\ [][NextCommunities]_vars

\* The timelines of documents with and without a year.
TimelineAuthorLists == {<<"Smith", "Jones">>, <<"Jones", "Smith">>, <<"Smith">>,
                        <<"Smith", "Smith">>, <<"Smith", "Jones", "Lee">>}
NextTimeline ==
  \/ \E authors \in TimelineAuthorLists, year \in ProfileYears :
       InFlight = {} /\ StoreDocument(authors, year, 0)
  \/ \E o \in {"get_collaboration_timeline", "get_citation_timeline"} : Call(1, o, NoArg)
  \/ Load(1)
  \/ Return(1)

SpecTimeline == Init /\ [][NextTimeline]_vars

\* The operations that open a session themselves, called from two contexts
\* over a store that is written and that fails and recovers.
SessionOps == {"build_citation_network", "build_coauthorship_network",
               "get_most_cited_papers", "get_most_citing_papers",
               "get_citation_timeline", "get_collaboration_timeline"}
NextSessions ==
  \/ (\A c \in Ctx : pc[c] = "idle") /\ StoreDocument(<<"Smith", "Jones">>, 2020, 1)
  \/ StoreFails
  \/ StoreRecovers
  \/ \E c \in Ctx, o \in SessionOps : Call(c, o, NoArg)
  \/ \E c \in Ctx : Load(c)
  \/ \E c \in Ctx : Compute(c, {}, DefaultLib)
  \/ \E c \in Ctx : Return(c)

SpecSessions == Init /\ [][NextSessions]_vars

\* store_document calls, one at a time and the only writers, with store
\* outages, and a caller of build_citation_network.
StoreAuthorLists == {<<>>, <<"Smith">>, <<"Smith", "Jones">>}
NextStore ==
  \/ \E authors \in StoreAuthorLists, ncit \in {0, MaxCites},
        keywords \in BOOLEAN, malformed \in BOOLEAN :
       /\ pc[1] = "idle"
       /\ malformed => ncit > 0
       /\ store_document(authors, 2020, ncit, keywords, malformed)
  \/ store_flush
  \/ store_author
  \/ store_keywords
  \/ store_citations
  \/ store_commit
  \/ store_return
  \/ StoreFails
  \/ StoreRecovers
  \/ Call(1, "build_citation_network", NoArg)
  \/ Load(1)
  \/ Compute(1, {}, DefaultLib)
  \/ Return(1)

SpecStore == Init /\ [][NextStore]_vars

\* One process_directory run over up to MaxDocs files, with store outages.
FileLists == SeqsUpTo(Files, MaxDocs)
NextCli ==
  \/ \E pdf_files \in FileLists, max_files \in 0..MaxDocs : process_directory(pdf_files, max_files)
  \/ process_single_pdf
  \/ store_flush
  \/ store_author
  \/ store_keywords
  \/ store_citations
  \/ store_commit
  \/ process_single_pdf_stored
  \/ process_directory_complete
  \/ StoreFails
  \/ StoreRecovers

SpecCli == Init /\ [][NextCli]_vars

\* ------------------------------------------------------------ properties

Held(c) == graphs[GraphSlot(c, op[c])]
Built(c, k) == pc[c] = "built" /\ Kind(op[c]) = k
Lists(doc, a) == a \in Range(doc.authors)
SharedDocs(a, b) == {i \in DOMAIN documents : Lists(documents[i], a) /\ Lists(documents[i], b)}
InternalCitations == {k \in DOMAIN citations : citations[k].cited # NoId}

\* C1: the citation graph has as many edges as there are citation records
\* with a cited_document_id, and every edge comes from such a record.
C1_EdgesAreInternalCitations ==
  \A c \in Ctx : Built(c, "cite") =>
    /\ number_of_edges(Held(c)) = Cardinality(InternalCitations)
    /\ \A e \in DOMAIN Held(c).edges :
         \E k \in InternalCitations : citations[k].citing = e[1] /\ citations[k].cited = e[2]

\* C2: for distinct authors A and B the edge {A, B} exists exactly when some
\* document lists both, its weight is the number of documents listing both,
\* and its paper list is as long as its weight.
C2_WeightIsSharedDocuments ==
  \A c \in Ctx : Built(c, "co") =>
    \A a \in Names : \A b \in Names \ {a} :
      /\ {a, b} \in DOMAIN Held(c).edges <=> SharedDocs(a, b) # {}
      /\ {a, b} \in DOMAIN Held(c).edges =>
           /\ Held(c).edges[{a, b}].weight = Cardinality(SharedDocs(a, b))
           /\ Len(Held(c).edges[{a, b}].papers) = Held(c).edges[{a, b}].weight

\* C3: the collaboration graph never has an edge from an author to itself.
C3_NoSelfEdge ==
  \A c \in Ctx : Built(c, "co") => \A a \in Names : {a} \notin DOMAIN Held(c).edges


\* Two graphs with the same nodes, the same edges and the same edge data
\* (for the collaboration graph: weight and papers).
SameGraph(G1, G2) ==
  /\ Range(G1.nodes) = Range(G2.nodes)
  /\ DOMAIN G1.edges = DOMAIN G2.edges
  /\ \A e \in DOMAIN G1.edges : G1.edges[e] = G2.edges[e]

\* C4: two calls of build_citation_network, or of build_coauthorship_network,
\* with no store write between them return graphs with the same nodes, the
\* same edges and the same edge weights.
C4_RebuildIsIdempotent ==
  \A k \in Kinds : hist.builds[k] = 2 => SameGraph(hist.last[k], hist.prev[k])

C4_Witness ==
  /\ hist.builds["co"] = 2 /\ hist.builds["cite"] = 2
  /\ \E e \in DOMAIN hist.last["co"].edges : hist.last["co"].edges[e].weight = 2
  /\ number_of_edges(hist.last["cite"]) > 0

\* C5: the graph a call builds holds every document committed before the call
\* began (as a node of the citation graph; as a paper of each of its authors
\* in the collaboration graph), and no frame keeps a graph after its call.
C5_CallSeesCommittedDocuments ==
  \A c \in Ctx :
    /\ Built(c, "cite") =>
         \A i \in 1..hist.start[c] : documents[i].id \in Range(Held(c).nodes)
    /\ Built(c, "co") =>
         \A i \in 1..hist.start[c] : \A a \in Range(documents[i].authors) :
           /\ a \in Range(Held(c).nodes)
           /\ \E j \in DOMAIN Held(c).attrs[a].papers : Held(c).attrs[a].papers[j].id = documents[i].id
    /\ pc[c] = "idle" => Held(c) = NoGraph

\* A call that began after a write which followed an earlier call of the same
\* context, and that built both documents into its graph.
C5_Witness ==
  \E c \in Ctx :
    /\ Built(c, "co") /\ hist.start[c] = 2 /\ Len(Held(c).nodes) >= 2
    /\ \E d \in Ctx \ {c} : Built(d, "cite") /\ hist.start[d] = 1 /\ Len(documents) = 2

\* What a call of operation o with argument a returns when it runs alone on
\* the store as it is.
Alone(o, a) ==
  Run(o, a,
      BuildGraph(Kind(o), IF Kind(o) = "co" THEN nx_Graph ELSE nx_DiGraph,
                 documents, citations),
      {}, DefaultLib)

\* C6: a call that ran while other calls ran, over a store not written since
\* it began, returns what it returns when run alone.
C6_ConcurrentCallsAreIsolated ==
  \A c \in Ctx : (pc[c] = "done" /\ ~hist.dirty[c]) => outcome[c] = Alone(op[c], arg[c])

C6_Witness ==
  /\ pc[1] = "done" /\ pc[2] = "done"
  /\ op[1] = "analyze_citation_patterns" /\ op[2] = "analyze_author_centrality"
  /\ ~hist.dirty[1] /\ ~hist.dirty[2]
  /\ documents = SeedDocuments


\* The overview calls, their count, ratio and ranking fields.
Overviews == {"analyze_citation_patterns", "analyze_author_centrality"}
CountFields(o) ==
  IF o = "analyze_citation_patterns" THEN {"total_papers", "total_citations"}
  ELSE {"total_authors", "total_collaborations"}
RatioFields(o) ==
  IF o = "analyze_citation_patterns" THEN {"average_citations_per_paper"}
  ELSE {"average_collaborators_per_author"}
RankingFields(o) ==
  IF o = "analyze_citation_patterns"
  THEN {"most_cited_by_in_degree", "most_citing_by_out_degree", "highest_pagerank"}
  ELSE {"top_by_degree_centrality", "top_by_betweenness_centrality",
        "top_by_closeness_centrality", "top_by_eigenvector_centrality"}
EmptyCorpusCall(c) ==
  pc[c] = "done" /\ op[c] \in Overviews /\ documents = <<>>

C8_OnlyEigenvectorOmitted ==
  \A c \in Ctx :
    (/\ pc[c] = "done" /\ op[c] = "analyze_author_centrality"
     /\ number_of_nodes(Held(c)) > 0
     /\ "eigenvector_centrality" \in hist.failed[c]) =>
      /\ outcome[c].kind = "return"
      /\ "top_by_eigenvector_centrality" \notin DOMAIN outcome[c].value
      /\ {"total_authors", "total_collaborations", "top_by_degree_centrality",
          "top_by_betweenness_centrality", "top_by_closeness_centrality",
          "is_connected"} \subseteq DOMAIN outcome[c].value

\* The field of the result that each networkx call of
\* analyze_citation_patterns feeds.
FieldOf(m) ==
  CASE m = "in_degree_centrality" -> "most_cited_by_in_degree"
    [] m = "out_degree_centrality" -> "most_citing_by_out_degree"
    [] m = "pagerank" -> "highest_pagerank"
    [] m = "is_weakly_connected" -> "is_connected"
    [] m = "diameter" -> "diameter"

\* C9: in analyze_citation_patterns over a graph with nodes, the field of
\* every metric whose own computation does not raise is in the result (the
\* diameter being a metric of weakly connected graphs only).
C9_SiblingMetricsSurvive ==
  \A c \in Ctx :
    (/\ pc[c] = "done" /\ op[c] = "analyze_citation_patterns"
     /\ number_of_nodes(Held(c)) > 0) =>
      \A m \in CiteMetrics \ hist.failed[c] :
        (m = "diameter" => is_connected(Held(c), "cite")) =>
          FieldOf(m) \in DOMAIN outcome[c].value

\* C10: a call whose build hit a failing read raises that error, whatever
\* the operation; a call whose build read a healthy store raises no read
\* error and hands back what the operation hands back on that store when no
\* call failed before it, also after an earlier call raised.
C10_ReadFailurePropagates ==
  \A c \in Ctx : pc[c] = "done" =>
    /\ hist.readFailed[c] => outcome[c] = Raised("StoreReadFailure")
    /\ ~hist.readFailed[c] =>
         /\ outcome[c] # Raised("StoreReadFailure")
         /\ ~hist.dirty[c] => outcome[c] = Alone(op[c], arg[c])

C10_Witness ==
  /\ pc[1] = "done" /\ hist.raisedBefore[1] /\ ~hist.readFailed[1]
  /\ op[1] = "find_research_communities"
  /\ outcome[1].kind = "return" /\ Len(documents) = 2

\* A profile call that has run, and the name it was asked for.
ProfileCall(c) == pc[c] = "done" /\ op[c] = "get_author_profile" /\ ~hist.readFailed[c]
Contains(name, part) == IsSubstring(lower(part), lower(name))

\* C11: get_author_profile(name) takes the node equal to name when there is
\* one, else the first node in node order whose name contains name without
\* regard to case; with no such node it returns a record with an error field
\* and does not raise; a profile it returns is the profile of the node taken.
C11_ProfileResolution ==
  \A c \in Ctx : ProfileCall(c) =>
    LET G == Held(c)
        name == arg[c].author_name
        hits == {i \in DOMAIN G.nodes : Contains(G.nodes[i], name)}
    IN /\ name \in Range(G.nodes) => hist.author[c] = name
       /\ (name \notin Range(G.nodes) /\ hits # {}) =>
            \E i \in hits : /\ hist.author[c] = G.nodes[i]
                            /\ \A j \in hits : i <= j
       /\ hits = {} =>
            /\ outcome[c].kind = "return"
            /\ DOMAIN outcome[c].value = {"error", "query"}
       /\ (outcome[c].kind = "return" /\ hits # {}) =>
            outcome[c].value.name = hist.author[c]

\* A call for "Jo" on a graph where "Jones", which contains it, comes first.
C11_Witness ==
  \E c \in Ctx :
    /\ ProfileCall(c) /\ arg[c].author_name = "Jo"
    /\ Held(c).nodes = <<"Jones", "Jo">>
    /\ outcome[c].kind = "return" /\ outcome[c].value.name = "Jo"

NonIncreasing(q) == \A i \in 1..(Len(q) - 1) : q[i] >= q[i + 1]

\* C12: a get_author_profile call that finds its author returns, whatever
\* mix of papers with and without a year the author has, with the papers in
\* non-increasing order of year (a missing year counting as 0) and the
\* collaborators in non-increasing order of collaboration count.
C12_ProfileSortedByYear ==
  \A c \in Ctx : (ProfileCall(c) /\ hist.author[c] # NoAuthor) =>
    /\ outcome[c].kind = "return"
    /\ NonIncreasing([i \in DOMAIN outcome[c].value.papers |->
                        outcome[c].value.papers[i].year])
    /\ NonIncreasing([i \in DOMAIN outcome[c].value.collaborators |->
                        outcome[c].value.collaborators[i].collaboration_count])


\* The authors that share a document with a, and the place of a node in the
\* node order of G.
Collaborators(a) ==
  {b \in Names \ {a} : SharedDocs(a, b) # {}}
Place(G, n) == CHOOSE i \in DOMAIN G.nodes : G.nodes[i] = n

\* C13: get_most_collaborative_authors(limit) returns at most limit authors,
\* in non-increasing order of their number of unique collaborators, authors
\* with the same number in node order, and no author left out has more
\* unique collaborators than one returned.
C13_MostCollaborativeOrder ==
  \A c \in Ctx : (/\ pc[c] = "done" /\ op[c] = "get_most_collaborative_authors"
                  /\ ~hist.dirty[c]) =>
    LET G == Held(c)
        out == outcome[c].value
        Count(i) == Cardinality(Collaborators(out[i].name))
    IN /\ outcome[c].kind = "return"
       /\ Len(out) <= arg[c].limit
       /\ \A i \in DOMAIN out : \A j \in DOMAIN out :
            i < j => \/ Count(i) > Count(j)
                     \/ /\ Count(i) = Count(j)
                        /\ Place(G, out[i].name) < Place(G, out[j].name)
       /\ \A n \in Range(G.nodes) \ {out[i].name : i \in DOMAIN out} :
            \A i \in DOMAIN out : Cardinality(Collaborators(n)) <= Count(i)

\* The same on corpora in which no document lists a name twice.
NoRepeatedName == \A d \in DOMAIN documents :
  \A i \in DOMAIN documents[d].authors : \A j \in DOMAIN documents[d].authors :
    i # j => documents[d].authors[i] # documents[d].authors[j]
C13_OrderWithoutRepeatedNames == NoRepeatedName => C13_MostCollaborativeOrder


\* The citation records whose internal target is document id.
CitationsOf(id) == {k \in DOMAIN citations : citations[k].cited = id}

\* C14: get_most_cited_papers(limit) returns at most limit papers, each with
\* citation_count the number of citation records whose internal target it
\* is, in non-increasing order of citation_count.
C14_MostCitedCounts ==
  \A c \in Ctx : (/\ pc[c] = "done" /\ op[c] = "get_most_cited_papers"
                  /\ ~hist.readFailed[c] /\ ~hist.dirty[c]) =>
    /\ outcome[c].kind = "return"
    /\ Len(outcome[c].value) <= arg[c].limit
    /\ \A i \in DOMAIN outcome[c].value :
         outcome[c].value[i].citation_count =
           Cardinality(CitationsOf(outcome[c].value[i].document.id))
    /\ NonIncreasing([i \in DOMAIN outcome[c].value |-> outcome[c].value[i].citation_count])


DegreeFields(o) ==
  IF o = "analyze_citation_patterns"
  THEN {"most_cited_by_in_degree", "most_citing_by_out_degree"}
  ELSE {"top_by_degree_centrality"}

\* An overview call that returned a result with its rankings.
RankedCall(c) ==
  /\ pc[c] = "done" /\ op[c] \in Overviews
  /\ outcome[c].kind = "return"
  /\ RankingFields(op[c]) \subseteq DOMAIN outcome[c].value

\* C15: every degree, in-degree and out-degree centrality score an overview
\* reports lies in [0, 1] when the graph has two nodes or more, and is 0 when
\* the graph has one node.
C15_DegreeCentralityInUnitInterval ==
  \A c \in Ctx : RankedCall(c) =>
    \A f \in DegreeFields(op[c]) :
      \A i \in DOMAIN outcome[c].value[f] :
        LET score == outcome[c].value[f][i][2]
        IN IF Len(Held(c).nodes) >= 2
           THEN 0 <= score[1] /\ score[1] <= score[2]
           ELSE score[1] = 0


\* The cut of the rankings of an overview.
TopK(o) == IF o = "analyze_citation_patterns" THEN TopCited ELSE TopAuthors

\* The score of the node at place i of G in ranking f, before any sorting.
ScoreAt(c, f, i) ==
  LET G == Held(c)
      n == Len(G.nodes)
      lib == hist.lib[c]
  IN CASE f = "most_cited_by_in_degree" -> Centrality(G, "in_degree")[i][2][1]
       [] f = "most_citing_by_out_degree" -> Centrality(G, "out_degree")[i][2][1]
       [] f = "top_by_degree_centrality" -> Centrality(G, "degree")[i][2][1]
       [] f = "highest_pagerank" -> Score(lib.scores["pagerank"], i, n)
       [] f = "top_by_betweenness_centrality" -> Score(lib.scores["betweenness"], i, n)
       [] f = "top_by_closeness_centrality" -> Score(lib.scores["closeness"], i, n)
       [] f = "top_by_eigenvector_centrality" -> Score(lib.scores["eigenvector"], i, n)

\* C16: every ranking list of an overview is in non-increasing order of
\* score, is cut to K entries (5 for the citation overview, 10 for the
\* author overview) which are the K first of that order, and lists nodes of
\* equal score in the order the graph got them.
C16_RankingsSortedAndCut ==
  \A c \in Ctx : RankedCall(c) =>
    \A f \in RankingFields(op[c]) :
      LET G == Held(c)
          n == Len(G.nodes)
          list == outcome[c].value[f]
          place == [i \in DOMAIN list |-> Place(G, list[i][1])]
      IN /\ Len(list) = IF n < TopK(op[c]) THEN n ELSE TopK(op[c])
         /\ \A i \in DOMAIN list : list[i][2][1] = ScoreAt(c, f, place[i])
         /\ \A i, j \in DOMAIN list : i < j =>
              \/ list[i][2][1] > list[j][2][1]
              \/ list[i][2][1] = list[j][2][1] /\ place[i] < place[j]
         /\ \A i \in DOMAIN list : \A q \in DOMAIN G.nodes :
              q \notin Range(place) =>
                \/ list[i][2][1] > ScoreAt(c, f, q)
                \/ list[i][2][1] = ScoreAt(c, f, q) /\ place[i] < q

C16_Witness ==
  \E c \in Ctx :
    /\ RankedCall(c) /\ op[c] = "analyze_author_centrality"
    /\ Len(Held(c).nodes) > TopAuthors
    /\ LET list == outcome[c].value["top_by_degree_centrality"]
       IN /\ Len(list) = TopAuthors
          /\ list[1][2][1] > list[TopAuthors][2][1]
          /\ list[1][2][1] = list[2][2][1]
          /\ Place(Held(c), list[1][1]) > 1


\* An analyze_author_centrality call on a graph with a node at least.
CentralityCall(c) ==
  /\ pc[c] = "done" /\ op[c] = "analyze_author_centrality"
  /\ ~hist.readFailed[c]
  /\ Held(c).nodes # <<>>

\* C17: on a non-empty collaboration graph analyze_author_centrality reports
\* is_connected = TRUE with the diameter and the average path length exactly
\* when the graph is connected, and otherwise is_connected = FALSE with the
\* number of components and the size and the diameter of the largest one; no
\* diameter of a disconnected graph is reported.
C17_ConnectivityReport ==
  \A c \in Ctx : CentralityCall(c) =>
    /\ outcome[c].kind = "return"
    /\ "is_connected" \in DOMAIN outcome[c].value
    /\ LET G == Held(c)
           v == outcome[c].value
       IN IF is_connected(G, "co")
          THEN /\ v.is_connected = TRUE
               /\ {"diameter", "average_path_length"} \subseteq DOMAIN v
               /\ v.diameter = diameter(G, "co", Range(G.nodes))
          ELSE /\ v.is_connected = FALSE
               /\ {"connected_components", "largest_component_size",
                   "largest_component_diameter"} \subseteq DOMAIN v
               /\ "diameter" \notin DOMAIN v
               /\ v.connected_components = Cardinality(Components(G, "co"))
               /\ v.largest_component_size = Cardinality(LargestComponent(G, "co"))
               /\ v.largest_component_diameter = diameter(G, "co", LargestComponent(G, "co"))


\* S and the documents one citation away from it, in either direction.
Around(G, S) ==
  S \cup {m \in Range(G.nodes) :
            \E n \in S : <<n, m>> \in DOMAIN G.edges \/ <<m, n>> \in DOMAIN G.edges}

RECURSIVE Ball(_, _, _)
Ball(G, S, d) == IF d = 0 THEN S ELSE Ball(G, Around(G, S), d - 1)

WeakComponents(G) == {Ball(G, {u}, Len(G.nodes)) : u \in Range(G.nodes)}

\* The least d within which every document reaches every other one.
UndirectedDiameter(G) ==
  CHOOSE d \in 0..Len(G.nodes) :
    /\ \A u \in Range(G.nodes) : Ball(G, {u}, d) = Range(G.nodes)
    /\ d = 0 \/ \E u \in Range(G.nodes) : Ball(G, {u}, d - 1) # Range(G.nodes)

\* An analyze_citation_patterns call on a graph with a node at least.
PatternsCall(c) ==
  /\ pc[c] = "done" /\ op[c] = "analyze_citation_patterns"
  /\ ~hist.readFailed[c]
  /\ Held(c).nodes # <<>>

\* C18: on a non-empty citation graph analyze_citation_patterns judges
\* connectivity without regard to the direction of the citations: a weakly
\* connected graph is reported with is_connected = TRUE and the diameter of
\* its undirected projection, any other with is_connected = FALSE and the
\* number of weakly connected components only, without a diameter.
C18_WeakConnectivityReport ==
  \A c \in Ctx : PatternsCall(c) =>
    /\ outcome[c].kind = "return"
    /\ "is_connected" \in DOMAIN outcome[c].value
    /\ LET G == Held(c)
           v == outcome[c].value
           rest == DOMAIN v \ (CountFields(op[c]) \cup RatioFields(op[c])
                                 \cup RankingFields(op[c]))
       IN IF Cardinality(WeakComponents(G)) = 1
          THEN /\ v.is_connected = TRUE
               /\ rest = {"is_connected", "diameter"}
               /\ v.diameter = UndirectedDiameter(G)
          ELSE /\ v.is_connected = FALSE
               /\ rest = {"is_connected", "connected_components"}
               /\ v.connected_components = Cardinality(WeakComponents(G))

C18_Witness ==
  \E c \in Ctx :
    /\ PatternsCall(c) /\ outcome[c].kind = "return"
    /\ "diameter" \in DOMAIN outcome[c].value
    /\ outcome[c].value.diameter >= 2
    /\ \E e \in DOMAIN Held(c).edges : <<e[2], e[1]>> \notin DOMAIN Held(c).edges


\* A call that returned the communities or the clusters of its graph.
CommunityCall(c) ==
  /\ pc[c] = "done" /\ op[c] \in {"find_research_communities", "find_citation_clusters"}
  /\ ~hist.readFailed[c]
  /\ outcome[c].kind = "return"

\* The members of an entry of either list.
MembersOf(o, entry) ==
  IF o = "find_research_communities"
  THEN {entry.authors[k].name : k \in DOMAIN entry.authors}
  ELSE {entry.documents[k].id : k \in DOMAIN entry.documents}

\* The groups the library detected in the call's graph.
Detected(c) ==
  LET found == greedy_modularity_communities(Held(c), Kind(op[c]), hist.lib[c])
  IN {Range(found[i]) : i \in DOMAIN found}

\* C19: every reported community and every reported cluster has three
\* members or more, the detected groups of one or two members are left out
\* and those of three or more are all there, and no node is in two of them.
C19_CommunitiesOfThreeOrMore ==
  \A c \in Ctx : CommunityCall(c) =>
    LET list == outcome[c].value
        members == [i \in DOMAIN list |-> MembersOf(op[c], list[i])]
    IN /\ \A i \in DOMAIN list : Cardinality(members[i]) >= 3 /\ list[i].size >= 3
       /\ \A i, j \in DOMAIN list : i # j => members[i] \cap members[j] = {}
       /\ Range(members) = {D \in Detected(c) : Cardinality(D) >= 3}

C19_Witness ==
  \E c \in Ctx :
    /\ CommunityCall(c)
    /\ Len(outcome[c].value) >= 2
    /\ \E D \in Detected(c) : Cardinality(D) \in {1, 2}

RECURSIVE PapersIn(_, _)
PapersIn(G, S) ==
  IF S = {} THEN 0
  ELSE LET a == CHOOSE a \in S : TRUE
       IN G.attrs[a].total_papers + PapersIn(G, S \ {a})

\* C20: find_research_communities lists the communities by size, largest
\* first; key_authors are the five members (or all, if fewer) with the most
\* papers, in non-increasing order of paper count; size is the number of
\* members, total_papers the sum of their paper counts, and
\* internal_collaborations the number of edges with both ends inside.
C20_CommunityStatistics ==
  \A c \in Ctx : (CommunityCall(c) /\ op[c] = "find_research_communities") =>
    LET G == Held(c)
        list == outcome[c].value
    IN /\ NonIncreasing([i \in DOMAIN list |-> list[i].size])
       /\ \A i \in DOMAIN list :
            LET members == MembersOf(op[c], list[i])
                key == list[i].key_authors
                names == {key[k].name : k \in DOMAIN key}
            IN /\ list[i].size = Cardinality(members)
               /\ list[i].total_papers = PapersIn(G, members)
               /\ list[i].internal_collaborations =
                    Cardinality({e \in DOMAIN G.edges : e \subseteq members})
               /\ Len(key) = IF list[i].size < KeyAuthors THEN list[i].size ELSE KeyAuthors
               /\ Cardinality(names) = Len(key) /\ names \subseteq members
               /\ \A k \in DOMAIN key : key[k].papers_count = G.attrs[key[k].name].total_papers
               /\ NonIncreasing([k \in DOMAIN key |-> key[k].papers_count])
               /\ \A a \in members \ names : \A k \in DOMAIN key :
                    G.attrs[a].total_papers <= key[k].papers_count

C20_Witness ==
  \E c \in Ctx :
    /\ CommunityCall(c) /\ op[c] = "find_research_communities"
    /\ Len(outcome[c].value) >= 2
    /\ outcome[c].value[1].size > KeyAuthors
    /\ outcome[c].value[1].size > outcome[c].value[2].size
    /\ outcome[c].value[1].key_authors[1].papers_count
         > outcome[c].value[1].key_authors[KeyAuthors].papers_count
    /\ outcome[c].value[1].internal_collaborations > 0


\* The two groups of a graph that is made of two separate fully connected
\* groups of three authors or more, and no such pair otherwise.
Pairs(S) == {{a, b} : a, b \in S} \ {{a} : a \in S}
TwoFullGroups(G) ==
  {gs \in SUBSET Components(G, "co") :
     /\ Cardinality(gs) = 2
     /\ UNION gs = Range(G.nodes)
     /\ \A A \in gs : Cardinality(A) >= 3
     /\ DOMAIN G.edges = UNION {Pairs(A) : A \in gs}}

\* C21: on a collaboration graph made of two separate fully connected groups
\* of three authors or more, find_research_communities returns two
\* communities, one for each group and with all its members.
C21_TwoGroupsTwoCommunities ==
  \A c \in Ctx : (CommunityCall(c) /\ op[c] = "find_research_communities") =>
    \A gs \in TwoFullGroups(Held(c)) :
      LET list == outcome[c].value
      IN /\ Len(list) = 2
         /\ {MembersOf(op[c], list[i]) : i \in DOMAIN list} = gs

C21_Witness ==
  \E c \in Ctx :
    /\ CommunityCall(c) /\ op[c] = "find_research_communities"
    /\ \E gs \in TwoFullGroups(Held(c)) : \E A, B \in gs : Cardinality(A) < Cardinality(B)
    /\ Len(outcome[c].value) = 2
    /\ hist.lib[c].tie = "last" /\ hist.lib[c].zero


\* A timeline call that handed back a result computed on the present store.
TimelineCall(c, o) ==
  /\ pc[c] = "done" /\ op[c] = o
  /\ ~hist.readFailed[c] /\ ~hist.dirty[c]

DocsOfYear(y) == {i \in DOMAIN documents : documents[i].year = y}

\* C22: in get_collaboration_timeline, unique_collaborations of a year is
\* the number of unordered pairs of different authors who share a document
\* of that year, unique_authors the number of names on the year's documents
\* and collaboration_rate is collaborative_papers / total_papers.
C22_TimelineCountsPairsOnce ==
  \A c \in Ctx : TimelineCall(c, "get_collaboration_timeline") =>
    /\ outcome[c].kind = "return"
    /\ \A y \in DOMAIN outcome[c].value.timeline :
         LET entry == outcome[c].value.timeline[y]
             names == UNION {Range(documents[i].authors) : i \in DocsOfYear(y)}
         IN /\ entry.unique_collaborations =
                 Cardinality({p \in Pairs(names) :
                                \E i \in DocsOfYear(y) : p \subseteq Range(documents[i].authors)})
            /\ entry.unique_authors = Cardinality(names)
            /\ entry.collaboration_rate = Ratio(entry.collaborative_papers, entry.total_papers)

C22_CountsWithoutRepeatedNames == NoRepeatedName => C22_TimelineCountsPairsOnce


TimelineOps == {"get_collaboration_timeline", "get_citation_timeline"}

\* The publication years of the stored documents.
YearsStored == {documents[i].year : i \in DOMAIN documents} \ {NoYear}

\* C23: in a timeline result the keys are the years in which a document was
\* published, a year without a document is no key, a document without a
\* year adds no key, total_years is the number of keys and year_range the
\* least and the greatest key, or (None, None) without any.
YearsOfTimeline(c) ==
  /\ outcome[c].kind = "return"
  /\ LET v == outcome[c].value
     IN /\ DOMAIN v.timeline = YearsStored
        /\ v.total_years = Cardinality(YearsStored)
        /\ v.year_range = IF YearsStored = {} THEN <<NoYear, NoYear>>
                          ELSE <<Min(YearsStored), Max(YearsStored)>>
C23_TimelineYearsAreDocumentYears ==
  \A c \in Ctx : \A o \in TimelineOps : TimelineCall(c, o) => YearsOfTimeline(c)

\* The same of get_collaboration_timeline alone.
C23_CollaborationTimelineYears ==
  \A c \in Ctx : TimelineCall(c, "get_collaboration_timeline") => YearsOfTimeline(c)


\* C24: get_citation_timeline gives for every publication year the number of
\* citation records made by the documents of that year, the number received
\* by them, and net_citations = citations_received - citations_made.
C24_CitationTimelineCounts ==
  \A c \in Ctx : TimelineCall(c, "get_citation_timeline") =>
    /\ outcome[c].kind = "return"
    /\ DOMAIN outcome[c].value.timeline = YearsStored
    /\ \A y \in DOMAIN outcome[c].value.timeline :
         LET entry == outcome[c].value.timeline[y]
         IN /\ entry.citations_made =
                 Cardinality({k \in DOMAIN citations : citations[k].citing \in DocsOfYear(y)})
            /\ entry.citations_received =
                 Cardinality({k \in DOMAIN citations : citations[k].cited \in DocsOfYear(y)})
            /\ entry.net_citations = entry.citations_received - entry.citations_made


\* C25: after build_coauthorship_network every name on a document is a node,
\* also a name with single-author papers only, and a node's total_papers is
\* the length of its papers list and the number of documents that list it.
C25_NodesCarryTheirPapers ==
  \A c \in Ctx : Built(c, "co") =>
    LET G == Held(c)
    IN /\ Range(G.nodes) = UNION {Range(documents[i].authors) : i \in DOMAIN documents}
       /\ \A a \in Range(G.nodes) :
            /\ G.attrs[a].total_papers = Len(G.attrs[a].papers)
            /\ G.attrs[a].total_papers =
                 Cardinality({i \in DOMAIN documents : Lists(documents[i], a)})

C25_PapersWithoutRepeatedNames == NoRepeatedName => C25_NodesCarryTheirPapers


\* C26: a session opened by an operation is closed when the operation
\* returns or raises, so no call that is over, and no caller between two
\* calls, has left a session open.
C26_SessionsAreClosed ==
  /\ \A c \in Ctx : pc[c] \in {"idle", "built", "done"} => c \notin sessions
  /\ (\A c \in Ctx : pc[c] \in {"idle", "done"}) => sessions = {}

C26_Witness ==
  \E c, d \in Ctx :
    /\ c # d
    /\ pc[c] = "done" /\ hist.readFailed[c] /\ outcome[c].kind = "raise"
    /\ pc[d] = "done" /\ outcome[d] = Raised("AttributeError")
    /\ sessions = {}


\* C27: store_document is all-or-nothing.  While the call runs and after it
\* raised, the committed rows are those of before the call, whichever step
\* failed; when it raised, its session is closed and the caller has the
\* exception of the failing step; when it returned, the document with all
\* its authors and all its citations were added together, and the session
\* is closed.
StoredDocument ==
  [id |-> Len(store.before.documents) + 1, authors |-> store.authors, year |-> store.year]
C28_StoredCitationsMakeNoEdges ==
  /\ \A k \in DOMAIN citations : citations[k].cited = NoId
  /\ \A c \in Ctx : Built(c, "cite") =>
       /\ number_of_edges(Held(c)) = 0
       /\ ~hist.dirty[c] =>
            /\ number_of_nodes(Held(c)) = Len(documents)
            /\ Range(Held(c).nodes) = {documents[i].id : i \in DOMAIN documents}

\* The graph built of two stored documents with their citations.
C28_Witness ==
  /\ Built(1, "cite")
  /\ ~hist.dirty[1]
  /\ Len(documents) = 2
  /\ Len(citations) >= MaxCites
  /\ number_of_nodes(Held(1)) = 2

\* C29: in a profile get_author_profile returns, collaborative_papers +
\* solo_papers = total_papers, collaborative_papers is the number of the
\* author's papers that list another author as well, unique_collaborators is
\* the number of the author's neighbours in the graph, collaboration_rate is
\* collaborative_papers / total_papers (0 with no paper), and
\* 0 <= collaborative_papers <= total_papers.
ProfileReturned(c) ==
  /\ ProfileCall(c) /\ ~hist.dirty[c]
  /\ outcome[c].kind = "return" /\ "name" \in DOMAIN outcome[c].value
PapersWithOthers(a) ==
  {i \in DOMAIN documents :
     Lists(documents[i], a) /\ \E b \in Range(documents[i].authors) : b # a}
C29_ProfileCounts ==
  \A c \in Ctx : ProfileReturned(c) =>
    LET profile == outcome[c].value
    IN /\ profile.collaborative_papers + profile.solo_papers = profile.total_papers
       /\ profile.collaborative_papers = Cardinality(PapersWithOthers(profile.name))
       /\ profile.unique_collaborators = Cardinality(Range(Held(c).adj[profile.name]))
       /\ profile.collaboration_rate =
            IF profile.total_papers = 0 THEN Zero
            ELSE Ratio(profile.collaborative_papers, profile.total_papers)
       /\ 0 <= profile.collaborative_papers
       /\ profile.collaborative_papers <= profile.total_papers

\* The same on the corpora in which no document lists a name twice.
C29_CountsWithoutRepeatedNames == NoRepeatedName => C29_ProfileCounts

====
